---------------------------- MODULE Spec2Model ----------------------------
(***************************************************************************)
(* Model of the TPM 2.0 command codec of azure-utpm-c (src/tpm_codec.c):   *)
(* the command builder TSS_BuildCommand, the transport call                *)
(* TSS_SendCommand and the dispatcher TSS_DispatchCmd.                     *)
(*                                                                         *)
(* Buffers are sequences of bytes (0..255).  A C array is modelled by the  *)
(* prefix of it that has been written so far; a pointer argument is a      *)
(* record [isNull, arr].  Integers of the wire format are big-endian.  A   *)
(* UINT32 is held as the 32-bit two's complement integer with the same bit *)
(* pattern (v - 2^32 stands for v >= 2^31), the range TLC's integers have. *)
(***************************************************************************)
EXTENDS Integers, Sequences, FiniteSets, TLC

VARIABLES
    tpm,        \* the caller's TSS_DEVICE: tpm_comm_handle, LastRawResponse
    CmdCtx,     \* the static TSS_CMD_CONTEXT
    lastCall    \* the arguments and the outcome of the last call made

vars == <<tpm, CmdCtx, lastCall>>

-----------------------------------------------------------------------------
(* Program constants.                                                      *)

MAX_COMMAND_BUFFER == 4096
MAX_RESPONSE_BUFFER == MAX_COMMAND_BUFFER
TSS_BAD_PROPERTY == -1          \* (UINT32)-1 = 0xFFFFFFFF
\* HR_PERSISTENT | 0x00000100 = 0x81000100
DRS_ID_KEY_HANDLE == (-2130706432) + 256

\* The command-code range test of TSS_BuildCommand (0x11f and 0x193).
CC_FIRST == 287
CC_LAST == 403

\* Constants of the TPM 2.0 headers (Tpm.h / TpmTypes.h).
TPM_ST_NO_SESSIONS == 32769     \* 0x8001
TPM_ST_SESSIONS == 32770        \* 0x8002
STD_RESPONSE_HEADER == 10       \* sizeof(TPM_ST) + sizeof(UINT32) + sizeof(TPM_RC)
TPM_RH_UNASSIGNED == 1073741832 \* 0x40000008
TPM_RS_PW == 1073741833         \* 0x40000009
RC_FMT1 == 128                  \* 0x080
TPM_RC_SUCCESS == 0
TPM_RC_BAD_TAG == 30            \* 0x01E
TPM_RC_FAILURE == 257           \* RC_VER1 + 0x001
TPM_RC_COMMAND_SIZE == 322      \* RC_VER1 + 0x042
TPM_RC_COMMAND_CODE == 323      \* RC_VER1 + 0x043
TPM_RC_INSUFFICIENT == 154      \* RC_FMT1 + 0x01A
TPM_RC_NOT_USED == 2431         \* RC_WARN + 0x7F = 0x97F
TPM_CC_CreatePrimary == 305     \* 0x131
TPM_CC_Load == 343              \* 0x157
TPM_CC_HMAC_Start == 347        \* 0x15B
TPM_CC_ContextLoad == 353       \* 0x161
TPM_CC_LoadExternal == 359      \* 0x167
TPM_CC_StartAuthSession == 374  \* 0x176
TPM_CC_GetCapability == 378     \* 0x17A
TPM_CC_HashSequenceStart == 390 \* 0x186
TPM_CC_CreateLoaded == 401      \* 0x191
TPM_RH_NULL == 1073741831       \* 0x40000007
TPM_ALG_SHA1 == 4               \* 0x0004
TPM_ALG_SHA256 == 11            \* 0x000B
TPM_ALG_SHA384 == 12            \* 0x000C
TPM_ALG_NULL == 16              \* 0x0010
TPM_RC_SIZE == 149              \* RC_FMT1 + 0x015
TPM_CC_HMAC == 341              \* 0x155
TPM_CC_SequenceUpdate == 348    \* 0x15C
TPM_CC_SequenceComplete == 318  \* 0x13E
TPM_CAP_HANDLES == 1
TPM_CAP_TPM_PROPERTIES == 6
TPM_PT_INPUT_BUFFER == 269      \* PT_FIXED + 13 = 0x10D
TPM_ST_HASHCHECK == 32804       \* 0x8024
MAX_DIGEST_BUFFER == 1024
MAX_TPM_PROPERTIES == 127       \* MAX_CAP_DATA / sizeof(TPMS_TAGGED_PROPERTY)
MAX_CAP_HANDLES == 254          \* MAX_CAP_DATA / sizeof(TPM_HANDLE)

-----------------------------------------------------------------------------
(* Bounds of the model.                                                    *)

MaxHandles == 2     \* handles passed to a TSS_BuildCommand call
MaxSessions == 2    \* sessions passed to a TSS_BuildCommand call
MaxParamLen == 2    \* parameter bytes passed to a TSS_BuildCommand call
MaxRawBits == 12    \* low bits of a raw status that take every value
MaxAuthLen == 2     \* bytes of an authorization value

-----------------------------------------------------------------------------
(* Bytes and pointers.                                                     *)

NullPtr == [isNull |-> TRUE, arr |-> <<>>]
Ptr(a) == [isNull |-> FALSE, arr |-> a]

U16(v) == <<(v \div 256) % 256, v % 256>>
U32(v) == <<(v \div 16777216) % 256, (v \div 65536) % 256, (v \div 256) % 256, v % 256>>

\* The big-endian value of the n bytes of buf that follow offset off; bytes of
\* the array that were never written read as 0 (the context is a zeroed static).
ByteAt(buf, i) == IF i <= Len(buf) THEN buf[i] ELSE 0
RdU16(buf, off) == ByteAt(buf, off + 1) * 256 + ByteAt(buf, off + 2)
RdU32(buf, off) ==
    LET b1 == ByteAt(buf, off + 1)
    IN  (IF b1 >= 128 THEN b1 - 256 ELSE b1) * 16777216 + ByteAt(buf, off + 2) * 65536
            + ByteAt(buf, off + 3) * 256 + ByteAt(buf, off + 4)

\* The one element of a one-element set.  {F(x) : x \in {e}} evaluates e once
\* and names its value x.
The(S) == CHOOSE x \in S : TRUE

\* buf with bytes stored at offset off.
Store(buf, off, bytes) ==
    The({LET n == IF Len(b) > off + Len(y) THEN Len(b) ELSE off + Len(y)
         IN  [i \in 1..n |-> IF i > off /\ i <= off + Len(y) THEN y[i - off] ELSE ByteAt(b, i)]
         : b \in {buf}, y \in {bytes}})

\* a > b on signed integers.
UGt_Signed(a, b) == a > b

\* a >= b in place of a > b.
UGt_OrEqual(a, b) == IF (a < 0) = (b < 0) THEN a >= b ELSE a < 0

\* a > b on UINT32 values.
UGt(a, b) == IF (a < 0) = (b < 0) THEN a > b ELSE a < 0

\* a & b for a mask b >= 0.
RECURSIVE BitAnd(_, _)
BitAnd(a, b) ==
    IF b = 0 THEN 0
    ELSE (a % 2) * (b % 2) + 2 * BitAnd(a \div 2, b \div 2)

-----------------------------------------------------------------------------
(* The type codec (Marshal.c).  A marshal call takes a cursor and a        *)
(* remaining budget: the value is stored and the cursor advanced only when *)
(* the budget covers it, and the call returns the encoded size of the      *)
(* value, which the caller adds to its running total.  A call with no      *)
(* budget pointer stores unconditionally.  An encoder state is             *)
(* [buf, pos, left]: the array, the cursor and the remaining budget.       *)

Marshal(m, bytes) ==
    The({IF Len(y) <= e.left
         THEN [buf |-> Store(e.buf, e.pos, y), pos |-> e.pos + Len(y), left |-> e.left - Len(y)]
         ELSE e
         : e \in {m}, y \in {bytes}})

\* BYTE_Array_Marshal: one BYTE_Marshal per byte, so the bytes that still fit
\* are stored.
BYTE_Array_Marshal(m, bytes) ==
    The({LET k == IF Len(y) <= e.left THEN Len(y) ELSE IF e.left > 0 THEN e.left ELSE 0
         IN  Marshal(e, SubSeq(y, 1, k))
         : e \in {m}, y \in {bytes}})

\* TPMS_AUTH_COMMAND: sessionHandle, nonce (TPM2B), sessionAttributes, hmac (TPM2B).
\* Each field is <<whole, bytes>>: a scalar is stored whole or not at all, the
\* bytes of a TPM2B buffer one by one.
AuthCommandFields(s) ==
    << <<TRUE, U32(s.sessionHandle)>>,
       <<TRUE, U16(Len(s.nonce))>>, <<FALSE, s.nonce>>,
       <<TRUE, <<s.sessionAttributes>> >>,
       <<TRUE, U16(Len(s.hmac))>>, <<FALSE, s.hmac>> >>

AuthCommandSize(s) == 4 + 2 + Len(s.nonce) + 1 + 2 + Len(s.hmac)

RECURSIVE MarshalFields(_, _)
MarshalFields(m, fields) ==
    IF fields = <<>> THEN m
    ELSE MarshalFields(IF Head(fields)[1] THEN Marshal(m, Head(fields)[2])
                       ELSE BYTE_Array_Marshal(m, Head(fields)[2]),
                       Tail(fields))

TPMS_AUTH_COMMAND_Marshal(m, s) == MarshalFields(m, AuthCommandFields(s))

-----------------------------------------------------------------------------
(* TSS_BuildCommand.                                                       *)

\* The validation that precedes encoding.
BuildArgsInvalid_NoUpperBound(cmdCode, handles, numHandles, sessions, numSessions, params, paramsSize, cmdBuffer, bufCapacity) ==
    \/ cmdCode < CC_FIRST
    \/ handles.isNull /\ numHandles # 0
    \/ sessions.isNull /\ numSessions # 0
    \/ params.isNull /\ paramsSize # 0
    \/ cmdBuffer.isNull \/ bufCapacity < STD_RESPONSE_HEADER

BuildArgsInvalid(cmdCode, handles, numHandles, sessions, numSessions, params, paramsSize, cmdBuffer, bufCapacity) ==
    \/ cmdCode < CC_FIRST \/ cmdCode > CC_LAST
    \/ handles.isNull /\ numHandles # 0
    \/ sessions.isNull /\ numSessions # 0
    \/ params.isNull /\ paramsSize # 0
    \/ cmdBuffer.isNull \/ bufCapacity < STD_RESPONSE_HEADER

\* The tag is chosen from the sessions pointer.
BuildTag(sessions, numSessions) ==
    IF ~sessions.isNull THEN TPM_ST_SESSIONS ELSE TPM_ST_NO_SESSIONS

RECURSIVE MarshalHandles(_, _, _, _)
MarshalHandles(m, handles, i, numHandles) ==
    IF i >= numHandles THEN m
    ELSE MarshalHandles(Marshal(m, U32(handles[i + 1])), handles, i + 1, numHandles)

RECURSIVE MarshalSessions(_, _, _, _)
MarshalSessions(m, sessions, i, numSessions) ==
    IF i >= numSessions THEN m
    ELSE MarshalSessions(TPMS_AUTH_COMMAND_Marshal(m, sessions[i + 1].SessIn),
                         sessions, i + 1, numSessions)

RECURSIVE AuthAreaSize(_, _, _)
AuthAreaSize(sessions, i, numSessions) ==
    IF i >= numSessions THEN 0
    ELSE AuthCommandSize(sessions[i + 1].SessIn) + AuthAreaSize(sessions, i + 1, numSessions)

\* The result: ret, the value returned; buf, the array afterwards; written, the
\* number of bytes stored through the cursor; overrun, whether a back-patch
\* stored bytes past bufCapacity.
BuildCommand(cmdCode, handles, numHandles, sessions, numSessions, params, paramsSize, cmdBuffer, bufCapacity) ==
    IF BuildArgsInvalid(cmdCode, handles, numHandles, sessions, numSessions,
                        params, paramsSize, cmdBuffer, bufCapacity)
    THEN [ret |-> 0, buf |-> cmdBuffer.arr, written |-> 0, overrun |-> FALSE]
    ELSE
    LET m0 == [buf |-> cmdBuffer.arr, pos |-> 0, left |-> bufCapacity]
        \* header: tag, reserved total size, command code
        m1 == Marshal(m0, U16(BuildTag(sessions, numSessions)))
        pCmdSize == m1.pos
        m2 == Marshal(m1, U32(2))
        m3 == Marshal(m2, U32(cmdCode))
        size3 == 2 + 4 + 4
        \* handles
        m4 == MarshalHandles(m3, handles.arr, 0, numHandles)
        size4 == size3 + (IF numHandles > 0 THEN 4 * numHandles ELSE 0)
        \* authorization area
        pAuthSize == m4.pos
        authSize == AuthAreaSize(sessions.arr, 0, numSessions)
        m5 == IF numSessions > 0
              THEN MarshalSessions(Marshal(m4, U32(0)), sessions.arr, 0, numSessions)
              ELSE m4
        size5 == IF numSessions > 0 THEN size4 + 4 + authSize ELSE size4
        buf5 == IF numSessions > 0 /\ pAuthSize + 4 <= bufCapacity
                THEN Store(m5.buf, pAuthSize, U32(authSize))
                ELSE m5.buf
        over5 == numSessions > 0 /\ pAuthSize + 4 > bufCapacity
        \* parameters
        m6 == IF ~params.isNull /\ paramsSize # 0
              THEN BYTE_Array_Marshal([m5 EXCEPT !.buf = buf5],
                                      SubSeq(params.arr, 1, paramsSize))
              ELSE [m5 EXCEPT !.buf = buf5]
        size6 == IF ~params.isNull /\ paramsSize > 0 THEN size5 + paramsSize ELSE size5
    IN  [ret |-> size6,
         buf |-> Store(m6.buf, pCmdSize, U32(size6)),
         written |-> m6.pos,
         overrun |-> over5]

-----------------------------------------------------------------------------
(* The state before any call: the static context is zero-initialised, the  *)
(* caller's device holds no transport connection yet.                      *)

InitCmdCtx ==
    [ParamSize |-> 0, ParamBuffer |-> <<>>, CmdSize |-> 0, CmdBuffer |-> <<>>,
     RespSize |-> 0, RespBuffer |-> <<>>, RespBytesLeft |-> 0, RespBufPtr |-> 0,
     RetHandle |-> 0, RespParamSize |-> 0]

-----------------------------------------------------------------------------
(* Calls of TSS_BuildCommand on a caller's buffer: the arguments are drawn *)
(* in the initial state and the call is applied to them.                   *)

\* Two authorization records: a password session with an empty authorization
\* value (9 bytes encoded) and an HMAC session with a 2-byte nonce and a
\* 1-byte HMAC (12 bytes encoded).
PwSessIn == [sessionHandle |-> TPM_RS_PW, nonce |-> <<>>, sessionAttributes |-> 1, hmac |-> <<>>]
HmacSessIn == [sessionHandle |-> 33554432, nonce |-> <<17, 34>>, sessionAttributes |-> 1, hmac |-> <<51>>]

\* Persistent-object handles 0x81000001, 0x81000002, ...
HandleArr == [i \in 1..MaxHandles |-> (-2130706432) + i]
SessionArr == [i \in 1..MaxSessions |-> [SessIn |-> IF i % 2 = 1 THEN PwSessIn ELSE HmacSessIn]]
ParamArr == [i \in 1..MaxParamLen |-> 160 + i]
StaleBuf == [i \in 1..(STD_RESPONSE_HEADER + 4) |-> 170]

BuildCodes == {CC_FIRST - 1, CC_FIRST, CC_LAST, CC_LAST + 1}
BuildCapacities == {STD_RESPONSE_HEADER - 1, STD_RESPONSE_HEADER, MAX_COMMAND_BUFFER}
PtrArgs(arr, max) == {<<NullPtr, n>> : n \in 0..1} \cup {<<Ptr(arr), n>> : n \in 0..max}

BuildArgs ==
    {[op |-> "build_args", cmdCode |-> c, handles |-> h[1], numHandles |-> h[2],
      sessions |-> s[1], numSessions |-> s[2], params |-> p[1], paramsSize |-> p[2],
      cmdBuffer |-> b, bufCapacity |-> cap] :
        c \in BuildCodes, h \in PtrArgs(HandleArr, MaxHandles),
        s \in PtrArgs(SessionArr, MaxSessions), p \in PtrArgs(ParamArr, MaxParamLen),
        b \in {NullPtr, Ptr(<<>>), Ptr(StaleBuf)}, cap \in BuildCapacities}

BuildInit ==
    /\ tpm = [tpm_comm_handle |-> "NULL", LastRawResponse |-> 0]
    /\ CmdCtx = InitCmdCtx
    /\ lastCall \in BuildArgs

TSS_BuildCommand ==
    /\ lastCall.op = "build_args"
    /\ \E r \in {BuildCommand(lastCall.cmdCode, lastCall.handles, lastCall.numHandles,
                               lastCall.sessions, lastCall.numSessions,
                               lastCall.params, lastCall.paramsSize,
                               lastCall.cmdBuffer, lastCall.bufCapacity)} :
          lastCall' = [op |-> "build", args |-> lastCall, ret |-> r.ret, buf |-> r.buf,
                       written |-> r.written, overrun |-> r.overrun]
    /\ UNCHANGED <<tpm, CmdCtx>>

BuildNext == TSS_BuildCommand

BuildSpec == BuildInit /\ [][BuildNext]_vars

-----------------------------------------------------------------------------
(* Response-code canonicalisation.                                         *)

\* (code & 0xFFFF0000) == 0x80280000
IsCommMediumError(code) == (code \div 65536) % 65536 = 32808

\* Variants of the canonicalisation: one that masks communication-medium codes
\* too, one whose format-0 mask drops the version and warning bits, one whose
\* format-1 mask keeps the parameter flag (bit 6).
CleanResponseCode_MasksCommMedium(rawResponse) ==
    BitAnd(rawResponse, IF BitAnd(rawResponse, RC_FMT1) # 0 THEN RC_FMT1 + 63 ELSE TPM_RC_NOT_USED)

CleanResponseCode_KeepsAllLowBits(rawResponse) ==
    IF IsCommMediumError(rawResponse) THEN rawResponse
    ELSE BitAnd(rawResponse, IF BitAnd(rawResponse, RC_FMT1) # 0 THEN RC_FMT1 + 63 ELSE 4095)

CleanResponseCode_KeepsParamFlag(rawResponse) ==
    IF IsCommMediumError(rawResponse) THEN rawResponse
    ELSE BitAnd(rawResponse, IF BitAnd(rawResponse, RC_FMT1) # 0 THEN RC_FMT1 + 127 ELSE TPM_RC_NOT_USED)

CleanResponseCode(rawResponse) ==
    IF IsCommMediumError(rawResponse) THEN rawResponse
    ELSE LET mask == IF BitAnd(rawResponse, RC_FMT1) # 0 THEN RC_FMT1 + 63
                     ELSE TPM_RC_NOT_USED
         IN  BitAnd(rawResponse, mask)

-----------------------------------------------------------------------------
(* Calls of CleanResponseCode: the raw status is drawn in the initial      *)
(* state and the function is applied to it, and again to its result.       *)

\* Raw statuses: every value of the low MaxRawBits bits under each of the high
\* halves 0x0000, 0x0001, 0x8028 (communication medium) and 0x8029, as signed
\* 32-bit values.
RawHighHalves == {0, 1, 32808 - 65536, 32809 - 65536}
RawStatuses == {hi * 65536 + lo : hi \in RawHighHalves, lo \in 0..(2^MaxRawBits - 1)}

CleanInit ==
    /\ tpm = [tpm_comm_handle |-> "NULL", LastRawResponse |-> 0]
    /\ CmdCtx = InitCmdCtx
    /\ lastCall \in {[op |-> "clean_args", raw |-> x] : x \in RawStatuses}

CleanResponseCode_Call ==
    /\ lastCall.op = "clean_args"
    /\ \E r \in {CleanResponseCode(lastCall.raw)} :
          lastCall' = [op |-> "clean", raw |-> lastCall.raw, ret |-> r,
                       again |-> CleanResponseCode(r)]
    /\ UNCHANGED <<tpm, CmdCtx>>

CleanNext == CleanResponseCode_Call

CleanSpec == CleanInit /\ [][CleanNext]_vars

-----------------------------------------------------------------------------
(* TSS_SendCommand.  The transport (tpm_comm_submit_command) either fails  *)
(* or stores a response and reports its length: xport = [ok, resp].        *)

\* The result: status; sent, the command lengths handed to the transport by
\* this call; respBuffer and respSize as the call leaves them.
SendCommand(tpmNull, dev, cmdBuffer, cmdSize, respBuffer, respSize, xport) ==
    IF tpmNull \/ cmdBuffer.isNull
    THEN [status |-> "TSS_E_INVALID_PARAM", sent |-> <<>>,
          respBuffer |-> respBuffer, respSize |-> respSize]
    ELSE IF dev.tpm_comm_handle = "NULL"
    THEN [status |-> "TSS_E_NOT_IMPL", sent |-> <<>>,
          respBuffer |-> respBuffer, respSize |-> respSize]
    ELSE IF ~xport.ok
    THEN [status |-> "TSS_E_TPM_TRANSACTION", sent |-> <<cmdSize>>,
          respBuffer |-> respBuffer, respSize |-> respSize]
    ELSE [status |-> "TSS_SUCCESS", sent |-> <<cmdSize>>,
          respBuffer |-> xport.resp, respSize |-> Len(xport.resp)]

-----------------------------------------------------------------------------
(* TSS_DispatchCmd.                                                        *)

\* The reset of the context at entry.
ResetContext(ctx) ==
    [ctx EXCEPT !.RespBufPtr = 0, !.RespParamSize = 0, !.RetHandle = TPM_RH_UNASSIGNED]

\* res != TSS_SUCCESS
SendFailed_OnlyInvalidParam(res) == res = "TSS_E_INVALID_PARAM"

SendFailed(res) == res # "TSS_SUCCESS"

\* The tag test made on the raw buffer before unmarshaling: the first two bytes
\* read as a TPM_ST of the host (little-endian here; the conjunction holds for
\* no value under either byte order).
BadTagTest(respBuffer) ==
    LET t == ByteAt(respBuffer, 2) * 256 + ByteAt(respBuffer, 1)
    IN  t = TPM_ST_NO_SESSIONS /\ t = TPM_ST_SESSIONS

\* cmdCtx->RespSize != expectedSize
SizeMismatch_OnlyLonger(respSize, expectedSize) == respSize > expectedSize

SizeMismatch(respSize, expectedSize) == respSize # expectedSize

\* The commands whose response carries a handle.
ReturnsHandle(cmdCode) ==
    cmdCode \in {TPM_CC_CreatePrimary, TPM_CC_Load, TPM_CC_HMAC_Start, TPM_CC_ContextLoad,
                 TPM_CC_LoadExternal, TPM_CC_StartAuthSession, TPM_CC_HashSequenceStart,
                 TPM_CC_CreateLoaded}

\* RetHandle == 0 || RetHandle == TPM_RH_UNASSIGNED
BadRetHandle(h) == h = 0 \/ h = TPM_RH_UNASSIGNED

\* TSS_UNMARSHAL of an n-byte scalar: the decode needs n bytes of budget, and a
\* failed decode consumes nothing.
CanUnmarshal(ctx, n) == ctx.RespBytesLeft >= n
Consumed(ctx, n) ==
    [ctx EXCEPT !.RespBufPtr = @ + n, !.RespBytesLeft = @ - n]

\* TPMI_ST_COMMAND_TAG_Unmarshal: a TPM_ST restricted to the two command tags.
CanUnmarshalTag(ctx) ==
    /\ CanUnmarshal(ctx, 2)
    /\ RdU16(ctx.RespBuffer, ctx.RespBufPtr) \in {TPM_ST_NO_SESSIONS, TPM_ST_SESSIONS}

\* The part of the dispatcher that follows a successful send and a passed tag
\* test: the result is [result, tpm, ctx].
ParseResponse(dev, ctx, cmdCode) ==
    LET c0 == [ctx EXCEPT !.RespBytesLeft = ctx.RespSize]
        d0 == [dev EXCEPT !.LastRawResponse = TPM_RC_NOT_USED]
        buf == ctx.RespBuffer
        Insufficient(d, c) == [result |-> TPM_RC_INSUFFICIENT, tpm |-> d, ctx |-> c]
    IN
    IF ~CanUnmarshalTag(c0) THEN Insufficient(d0, c0) ELSE
    LET tag == RdU16(buf, c0.RespBufPtr)
        c1 == Consumed(c0, 2)
    IN
    IF ~CanUnmarshal(c1, 4) THEN Insufficient(d0, c1) ELSE
    LET expectedSize == RdU32(buf, c1.RespBufPtr)
        c2 == Consumed(c1, 4)
    IN
    IF ~CanUnmarshal(c2, 4) THEN Insufficient(d0, c2) ELSE
    LET d1 == [d0 EXCEPT !.LastRawResponse = RdU32(buf, c2.RespBufPtr)]
        c3 == Consumed(c2, 4)
    IN
    IF SizeMismatch(c3.RespSize, expectedSize)
    THEN [result |-> TPM_RC_COMMAND_SIZE, tpm |-> d1, ctx |-> c3]
    ELSE IF d1.LastRawResponse # TPM_RC_SUCCESS
    THEN [result |-> CleanResponseCode(d1.LastRawResponse), tpm |-> d1, ctx |-> c3]
    ELSE IF ReturnsHandle(cmdCode) /\ ~CanUnmarshal(c3, 4) THEN Insufficient(d1, c3)
    ELSE
    LET c4 == IF ReturnsHandle(cmdCode)
              THEN [Consumed(c3, 4) EXCEPT !.RetHandle = RdU32(buf, c3.RespBufPtr)]
              ELSE c3
        r4 == IF ReturnsHandle(cmdCode) /\ BadRetHandle(c4.RetHandle)
              THEN TPM_RC_COMMAND_CODE ELSE TPM_RC_SUCCESS
    IN
    IF r4 # TPM_RC_SUCCESS THEN [result |-> r4, tpm |-> d1, ctx |-> c4]
    ELSE IF tag = TPM_ST_SESSIONS /\ ~CanUnmarshal(c4, 4) THEN Insufficient(d1, c4)
    ELSE
    LET c5 == IF tag = TPM_ST_SESSIONS
              THEN [Consumed(c4, 4) EXCEPT !.RespParamSize = RdU32(buf, c4.RespBufPtr)]
              ELSE c4
    IN  [result |-> CleanResponseCode(d1.LastRawResponse), tpm |-> d1, ctx |-> c5]

\* The result: result, the TPM_RC returned; tpm and ctx afterwards; buildRet,
\* what TSS_BuildCommand returned (-1 when it was not called); sendStatus,
\* what TSS_SendCommand returned ("none" when it was not called); sent, the
\* command lengths handed to the transport.
DispatchCmd(tpmNull, ctxNull, dev, ctx, cmdCode, handles, numHandles, sessions, numSessions, xport) ==
    IF tpmNull \/ ctxNull
    THEN [result |-> TPM_RC_FAILURE, tpm |-> dev, ctx |-> ctx,
          buildRet |-> -1, sendStatus |-> "none", sent |-> <<>>]
    ELSE
    The({
        The({
            LET c2 == [c1 EXCEPT !.RespBuffer = s.respBuffer, !.RespSize = s.respSize]
                r == IF SendFailed(s.status)
                     THEN [result |-> TPM_RC_COMMAND_CODE, tpm |-> dev, ctx |-> c2]
                     ELSE IF BadTagTest(c2.RespBuffer)
                     THEN [result |-> TPM_RC_BAD_TAG, tpm |-> dev, ctx |-> c2]
                     ELSE ParseResponse(dev, c2, cmdCode)
            IN  [result |-> r.result, tpm |-> r.tpm, ctx |-> r.ctx,
                 buildRet |-> c1.CmdSize, sendStatus |-> s.status, sent |-> s.sent]
            : s \in {SendCommand(tpmNull, dev, Ptr(c1.CmdBuffer), c1.CmdSize,
                                 c1.RespBuffer, c1.RespSize, xport)}})
        : c1 \in {The({[c0 EXCEPT !.CmdSize = b.ret, !.CmdBuffer = b.buf,
                                  !.RespSize = MAX_RESPONSE_BUFFER]
                       : c0 \in {ResetContext(ctx)},
                         b \in {BuildCommand(cmdCode, handles, numHandles, sessions, numSessions,
                                             Ptr(ctx.ParamBuffer), ctx.ParamSize,
                                             Ptr(ctx.CmdBuffer), MAX_COMMAND_BUFFER)}})}})

-----------------------------------------------------------------------------
(* Calls of TSS_DispatchCmd, one after another, on the static context.     *)

\* Commands as the wrappers issue them: the command code, the handles and
\* sessions, and the number of parameter bytes marshaled before the dispatch.
NoHandlesNoSessions(c, n) ==
    [cmdCode |-> c, handles |-> NullPtr, numHandles |-> 0,
     sessions |-> NullPtr, numSessions |-> 0, paramsSize |-> n]
OneHandleOneSession(c, n) ==
    [cmdCode |-> c, handles |-> Ptr(HandleArr), numHandles |-> 1,
     sessions |-> Ptr(SessionArr), numSessions |-> 1, paramsSize |-> n]

Commands ==
    {NoHandlesNoSessions(TPM_CC_GetCapability, MaxParamLen),
     NoHandlesNoSessions(CC_FIRST - 1, 0),
     OneHandleOneSession(TPM_CC_CreatePrimary, MaxParamLen)}

\* Responses: tag, declared size, raw status, and what follows the header.
Response(tag, extra, rc, rest) ==
    U16(tag) \o U32(STD_RESPONSE_HEADER + Len(rest) + extra) \o U32(rc) \o rest

TPM_ST_RSP_COMMAND == 196       \* 0x00C4, a tag that is neither command tag
\* Raw statuses a device reports: TPM_RC_COMMAND_CODE; TPM_RC_VALUE with the
\* parameter flag and parameter number 1 (0x1C4); the vendor-defined bit alone.
RawCommandCode == TPM_RC_COMMAND_CODE
RawValueParam1 == RC_FMT1 + 4 + 64 + 256
\* TPM_RC_VALUE blamed on session 1 (0x984): bit 11 and number 1, bit 6 clear.
RawValueSession1 == RC_FMT1 + 4 + 2048 + 256
RawVendorOnly == 1024           \* 0x400, the vendor-defined bit with code number 0
NewHandle == -2147483647        \* 0x80000001, a transient object

DeviceErrorRaws == {RawCommandCode, RawValueParam1, RawValueSession1, RawVendorOnly}
ResponseTags == {TPM_ST_NO_SESSIONS, TPM_ST_SESSIONS, TPM_ST_RSP_COMMAND}
ResponseRests == {<<>>, U32(0), U32(TPM_RH_UNASSIGNED), U32(NewHandle), U32(NewHandle) \o U32(0)}

\* Well-framed responses reporting success, well-framed responses reporting an
\* error, responses whose size field is one more than their length, and
\* responses cut short inside the header.
Responses ==
    {Response(t, 0, TPM_RC_SUCCESS, r) : t \in ResponseTags, r \in ResponseRests}
    \cup {Response(t, 0, rc, <<>>) : t \in {TPM_ST_NO_SESSIONS, TPM_ST_SESSIONS},
                                     rc \in DeviceErrorRaws}
    \cup {Response(t, 1, TPM_RC_SUCCESS, r) : t \in {TPM_ST_SESSIONS, TPM_ST_RSP_COMMAND},
                                              r \in {<<>>, U32(NewHandle) \o U32(0)}}
    \cup {Response(TPM_ST_NO_SESSIONS, 1, RawValueParam1, <<>>)}
    \cup {SubSeq(Response(TPM_ST_NO_SESSIONS, 0, TPM_RC_SUCCESS, <<>>), 1, n) : n \in {1, 6, 9}}

Transports == {[ok |-> FALSE, resp |-> <<>>]} \cup {[ok |-> TRUE, resp |-> r] : r \in Responses}

Init ==
    /\ tpm \in {[tpm_comm_handle |-> h, LastRawResponse |-> 0] : h \in {"NULL", "open"}}
    /\ CmdCtx = InitCmdCtx
    /\ lastCall = [op |-> "none"]

\* The caller has marshaled cmd.paramsSize parameter bytes into the context.
Prepared(ctx, cmd) ==
    [ctx EXCEPT !.ParamSize = cmd.paramsSize,
                !.ParamBuffer = Store(ctx.ParamBuffer, 0, SubSeq(ParamArr, 1, cmd.paramsSize))]

Dispatched(tpmNull, ctxNull, cmd, xport) ==
    \E r \in {DispatchCmd(tpmNull, ctxNull, tpm, IF ctxNull THEN CmdCtx ELSE Prepared(CmdCtx, cmd),
                          cmd.cmdCode, cmd.handles, cmd.numHandles,
                          cmd.sessions, cmd.numSessions, xport)} :
        /\ tpm' = r.tpm
        /\ CmdCtx' = r.ctx
        /\ lastCall' = [op |-> "dispatch", tpmNull |-> tpmNull, ctxNull |-> ctxNull,
                        cmd |-> cmd, xport |-> xport, result |-> r.result,
                        buildRet |-> r.buildRet, sendStatus |-> r.sendStatus,
                        sent |-> r.sent]

TSS_DispatchCmd ==
    \E cmd \in Commands, xport \in Transports : Dispatched(FALSE, FALSE, cmd, xport)

\* A call with a NULL device or a NULL context.
TSS_DispatchCmd_NullArg ==
    \E n \in {<<TRUE, FALSE>>, <<FALSE, TRUE>>} :
        Dispatched(n[1], n[2], NoHandlesNoSessions(TPM_CC_GetCapability, 0),
                   [ok |-> FALSE, resp |-> <<>>])

Next == TSS_DispatchCmd \/ TSS_DispatchCmd_NullArg

Spec == Init /\ [][Next]_vars

-----------------------------------------------------------------------------
(* TSS_CreatePwAuthSession.  A TSS_SESSION is [SessIn, SessOut]: the input *)
(* record TPMS_AUTH_COMMAND and the output record TPMS_AUTH_RESPONSE.      *)
(* sessionAttributes is the TPMA_SESSION byte, continueSession its bit 0.  *)

\* attrs.continueSession = SET
SetContinueSession(attrs) == attrs - (attrs % 2) + 1

\* MemoryCopy2B: the size and the bytes of the source.
MemoryCopy2B(dst, src) == src

CreatePwAuthSession_KeepsNonce(authValue, session) ==
    IF authValue.isNull \/ session.isNull
    THEN [result |-> TPM_RC_FAILURE, session |-> session]
    ELSE [result |-> TPM_RC_SUCCESS,
          session |-> Ptr([SessIn |-> [sessionHandle |-> TPM_RS_PW,
                                       nonce |-> session.arr.SessIn.nonce,
                                       sessionAttributes |->
                                           SetContinueSession(session.arr.SessIn.sessionAttributes),
                                       hmac |-> MemoryCopy2B(session.arr.SessIn.hmac, authValue.arr)],
                           SessOut |-> [session.arr.SessOut EXCEPT
                                           !.sessionAttributes = SetContinueSession(@)]])]

CreatePwAuthSession(authValue, session) ==
    IF authValue.isNull \/ session.isNull
    THEN [result |-> TPM_RC_FAILURE, session |-> session]
    ELSE [result |-> TPM_RC_SUCCESS,
          session |-> Ptr([SessIn |-> [sessionHandle |-> TPM_RS_PW,
                                       nonce |-> <<>>,
                                       sessionAttributes |->
                                           SetContinueSession(session.arr.SessIn.sessionAttributes),
                                       hmac |-> MemoryCopy2B(session.arr.SessIn.hmac, authValue.arr)],
                           SessOut |-> [session.arr.SessOut EXCEPT
                                           !.sessionAttributes = SetContinueSession(@)]])]

\* Authorization values of up to MaxAuthLen bytes.
RECURSIVE ByteSeqs(_, _)
ByteSeqs(B, n) ==
    IF n = 0 THEN {<<>>}
    ELSE ByteSeqs(B, n - 1) \cup {Append(q, b) : q \in {x \in ByteSeqs(B, n - 1) : Len(x) = n - 1}, b \in B}
AuthValues == ByteSeqs({1, 2}, MaxAuthLen)

\* Sessions as the caller may hand them in: fresh from the stack or used before.
PriorSessions ==
    {[SessIn |-> [sessionHandle |-> h, nonce |-> n, sessionAttributes |-> ai, hmac |-> n],
      SessOut |-> [nonce |-> n, sessionAttributes |-> ao, hmac |-> <<>>]] :
        h \in {0, 33554432}, n \in {<<>>, <<17, 34>>}, ai \in {0, 1, 96, 97}, ao \in {0, 32}}

PwInit ==
    /\ tpm = [tpm_comm_handle |-> "open", LastRawResponse |-> 0]
    /\ CmdCtx = InitCmdCtx
    /\ lastCall \in {[op |-> "pw_args", authValue |-> a, session |-> ss] :
                        a \in {NullPtr} \cup {Ptr(v) : v \in AuthValues},
                        ss \in {NullPtr} \cup {Ptr(v) : v \in PriorSessions}}

TSS_CreatePwAuthSession ==
    /\ lastCall.op = "pw_args"
    /\ \E r \in {CreatePwAuthSession(lastCall.authValue, lastCall.session)} :
          lastCall' = [op |-> "pw", authValue |-> lastCall.authValue,
                       before |-> lastCall.session, session |-> r.session,
                       result |-> r.result]
    /\ UNCHANGED <<tpm, CmdCtx>>

PwNext == TSS_CreatePwAuthSession

PwSpec == PwInit /\ [][PwNext]_vars

-----------------------------------------------------------------------------
(* The command template (BEGIN_CMD, TSS_MARSHAL, DISPATCH_CMD,             *)
(* TSS_UNMARSHAL) and TSS_StartAuthSession.                                *)

TSS_GetDigestSize(hashAlg) ==
    CASE hashAlg = TPM_ALG_SHA1 -> 20
      [] hashAlg = TPM_ALG_SHA256 -> 32
      [] hashAlg = TPM_ALG_SHA384 -> 48
      [] OTHER -> 0

\* The largest digest the codec knows; a TPM2B_NONCE or TPM2B_DIGEST holds at
\* least that many bytes.
MaxDigestSize == TSS_GetDigestSize(TPM_ALG_SHA384)

\* The encoding of a TPM2B: a 2-byte size and the bytes.
TPM2B(bytes) == U16(Len(bytes)) \o bytes

\* BEGIN_CMD followed by the TSS_MARSHAL calls of a wrapper: the parameter
\* bytes at the start of ParamBuffer, ParamSize their number.
BeginCmd(ctx, params) ==
    [ctx EXCEPT !.ParamSize = Len(params), !.ParamBuffer = Store(ctx.ParamBuffer, 0, params)]

\* n bytes of a buffer that held old: a size field overwritten without its bytes.
Resized(old, n) == [i \in 1..n |-> IF i <= Len(old) THEN old[i] ELSE 0]

\* TSS_UNMARSHAL of a TPM2B into a buffer of cap bytes that held old: the size,
\* then the bytes.  The result is [ok, val, ctx].
UnmarshalTPM2B(ctx, cap, old) ==
    IF ~CanUnmarshal(ctx, 2) THEN [ok |-> FALSE, val |-> old, ctx |-> ctx]
    ELSE LET n == RdU16(ctx.RespBuffer, ctx.RespBufPtr)
             c1 == Consumed(ctx, 2)
         IN  IF n > cap \/ ~CanUnmarshal(c1, n)
             THEN [ok |-> FALSE, val |-> Resized(old, n), ctx |-> c1]
             ELSE [ok |-> TRUE,
                   val |-> [i \in 1..n |-> ByteAt(c1.RespBuffer, c1.RespBufPtr + i)],
                   ctx |-> Consumed(c1, n)]

\* The result: rc; tpm and ctx afterwards; sessionHandle and nonceTPM, the
\* output parameters as the call leaves them; sent, the command lengths
\* handed to the transport.
TPM2_StartAuthSession(dev, ctx, tpmKey, bind, nonceCaller, sessionType, authHash, sessionHandle, nonceTPM, xport) ==
    The({IF d.result # TPM_RC_SUCCESS
         THEN [rc |-> d.result, tpm |-> d.tpm, ctx |-> d.ctx,
               sessionHandle |-> sessionHandle, nonceTPM |-> nonceTPM, sent |-> d.sent, dispatch |-> d.result]
         ELSE LET u == UnmarshalTPM2B(d.ctx, MaxDigestSize, nonceTPM)
              IN  [rc |-> IF u.ok THEN TPM_RC_SUCCESS ELSE TPM_RC_INSUFFICIENT,
                   tpm |-> d.tpm, ctx |-> u.ctx,
                   sessionHandle |-> d.ctx.RetHandle, nonceTPM |-> u.val, sent |-> d.sent, dispatch |-> d.result]
         : d \in {DispatchCmd(FALSE, FALSE, dev,
                              BeginCmd(ctx, TPM2B(nonceCaller) \o U16(0) \o <<sessionType>>
                                            \o U16(TPM_ALG_NULL) \o U16(authHash)),
                              TPM_CC_StartAuthSession, Ptr(<<tpmKey, bind>>), 2,
                              NullPtr, 0, xport)}})

\* TSS_RandomBytes: n bytes of rand(), here the bytes seed + 1, seed + 2, ...
RandomBytes(seed, n) == [i \in 1..n |-> (seed + i) % 256]

\* The result: rc; tpm, ctx and session afterwards; nonceCaller, the nonce
\* generated; sent, the command lengths handed to the transport.
StartAuthSession(dev, ctx, sessionType, authHash, sessAttrs, session, seed, xport) ==
    The({[rc |-> r.rc, tpm |-> r.tpm, ctx |-> r.ctx, sent |-> r.sent,
          nonceCaller |-> RandomBytes(seed, TSS_GetDigestSize(authHash)),
          session |->
              IF r.rc = TPM_RC_SUCCESS
              THEN [SessIn |-> [session.SessIn EXCEPT
                                   !.sessionHandle = r.sessionHandle,
                                   !.nonce = MemoryCopy2B(@, RandomBytes(seed, TSS_GetDigestSize(authHash))),
                                   !.sessionAttributes = sessAttrs],
                    SessOut |-> [session.SessOut EXCEPT
                                   !.nonce = r.nonceTPM, !.sessionAttributes = sessAttrs]]
              ELSE [SessIn |-> [session.SessIn EXCEPT !.sessionHandle = r.sessionHandle],
                    SessOut |-> [session.SessOut EXCEPT !.nonce = r.nonceTPM]]]
         : r \in {TPM2_StartAuthSession(dev, ctx, TPM_RH_NULL, TPM_RH_NULL,
                                        RandomBytes(seed, TSS_GetDigestSize(authHash)),
                                        sessionType, authHash, session.SessIn.sessionHandle,
                                        session.SessOut.nonce, xport)}})

-----------------------------------------------------------------------------
(* The command wrappers SignData is built on.  Each result holds rc, the   *)
(* device and the context afterwards, sent (the command lengths handed to  *)
(* the transport), dispatch (cmdResult as DISPATCH_CMD left it) and the    *)
(* wrapper's output parameters.                                            *)

\* TSS_UNMARSHAL of a UINT32: [ok, val, ctx].
UnmarshalU32(ctx) ==
    IF CanUnmarshal(ctx, 4)
    THEN [ok |-> TRUE, val |-> RdU32(ctx.RespBuffer, ctx.RespBufPtr), ctx |-> Consumed(ctx, 4)]
    ELSE [ok |-> FALSE, val |-> 0, ctx |-> ctx]

\* n consecutive UINT32 values: [ok, val, ctx].
RECURSIVE UnmarshalU32s(_, _)
UnmarshalU32s(ctx, n) ==
    IF n = 0 THEN [ok |-> TRUE, val |-> <<>>, ctx |-> ctx]
    ELSE The({IF ~u.ok THEN [ok |-> FALSE, val |-> <<>>, ctx |-> u.ctx]
              ELSE The({[ok |-> rest.ok, val |-> <<u.val>> \o rest.val, ctx |-> rest.ctx]
                        : rest \in {UnmarshalU32s(u.ctx, n - 1)}})
              : u \in {UnmarshalU32(ctx)}})

\* TPMS_CAPABILITY_DATA_Unmarshal: the capability, then the list it selects.
\* TPM_CAP_TPM_PROPERTIES selects a count and that many (property, value)
\* pairs, TPM_CAP_HANDLES a count and that many handles; the lists of the
\* other capabilities are not modelled and decode as a failure.
\* The result is [ok, val, ctx] with val = [capability, count, data].
TPMS_CAPABILITY_DATA_Unmarshal(ctx) ==
    LET Failed(c) == [ok |-> FALSE, val |-> [capability |-> 0, count |-> 0, data |-> <<>>], ctx |-> c]
    IN
    The({IF ~cap.ok THEN Failed(cap.ctx) ELSE
         The({IF ~cnt.ok THEN Failed(cnt.ctx)
              ELSE IF cap.val = TPM_CAP_TPM_PROPERTIES /\ ~UGt(cnt.val, MAX_TPM_PROPERTIES)
              THEN The({[ok |-> l.ok,
                         val |-> [capability |-> cap.val, count |-> cnt.val, data |-> l.val],
                         ctx |-> l.ctx] : l \in {UnmarshalU32s(cnt.ctx, 2 * cnt.val)}})
              ELSE IF cap.val = TPM_CAP_HANDLES /\ ~UGt(cnt.val, MAX_CAP_HANDLES)
              THEN The({[ok |-> l.ok,
                         val |-> [capability |-> cap.val, count |-> cnt.val, data |-> l.val],
                         ctx |-> l.ctx] : l \in {UnmarshalU32s(cnt.ctx, cnt.val)}})
              ELSE Failed(cnt.ctx)
              : cnt \in {UnmarshalU32(cap.ctx)}})
         : cap \in {UnmarshalU32(ctx)}})

\* TPMI_YES_NO_Unmarshal: one byte that must be NO (0) or YES (1).
CanUnmarshalYesNo(ctx) ==
    CanUnmarshal(ctx, 1) /\ ByteAt(ctx.RespBuffer, ctx.RespBufPtr + 1) \in {0, 1}

TPM2_GetCapability(dev, ctx, capability, property, propertyCount, xport) ==
    LET NoData == [capability |-> 0, count |-> 0, data |-> <<>>]
    IN
    The({IF d.result # TPM_RC_SUCCESS
         THEN [rc |-> d.result, tpm |-> d.tpm, ctx |-> d.ctx, sent |-> d.sent, dispatch |-> d.result,
               capabilityData |-> NoData]
         ELSE IF ~CanUnmarshalYesNo(d.ctx)
         THEN [rc |-> TPM_RC_INSUFFICIENT, tpm |-> d.tpm, ctx |-> d.ctx, sent |-> d.sent, dispatch |-> d.result,
               capabilityData |-> NoData]
         ELSE The({[rc |-> IF u.ok THEN TPM_RC_SUCCESS ELSE TPM_RC_INSUFFICIENT,
                    tpm |-> d.tpm, ctx |-> u.ctx, sent |-> d.sent, dispatch |-> d.result,
                    capabilityData |-> u.val]
                   : u \in {TPMS_CAPABILITY_DATA_Unmarshal(Consumed(d.ctx, 1))}})
         : d \in {DispatchCmd(FALSE, FALSE, dev,
                              BeginCmd(ctx, U32(capability) \o U32(property) \o U32(propertyCount)),
                              TPM_CC_GetCapability, NullPtr, 0, NullPtr, 0, xport)}})

\* The result holds value, the UINT32 returned, and rc, the local
\* TSS_LastResponseCode, besides tpm, ctx and sent.
GetTpmProperty(dev, ctx, property, xport) ==
    The({[tpm |-> g.tpm, ctx |-> g.ctx, sent |-> g.sent, rc |-> g.rc,
          value |->
              IF g.rc # TPM_RC_SUCCESS \/ g.capabilityData.capability # TPM_CAP_TPM_PROPERTIES
              THEN TSS_BAD_PROPERTY
              ELSE IF g.capabilityData.count # 1 THEN TSS_BAD_PROPERTY
              ELSE IF g.capabilityData.data[1] # property THEN TSS_BAD_PROPERTY
              ELSE g.capabilityData.data[2]]
         : g \in {TPM2_GetCapability(dev, ctx, TPM_CAP_TPM_PROPERTIES, property, 1, xport)}})

\* TPMT_TK_HASHCHECK_Unmarshal: the tag, which must be TPM_ST_HASHCHECK, the
\* hierarchy, which must be one of the four hierarchy handles, and a digest.
\* The result is [ok, ctx]; the value goes to a discarded temporary.
TPM_RH_OWNER == 1073741825      \* 0x40000001
TPM_RH_ENDORSEMENT == 1073741835 \* 0x4000000B
TPM_RH_PLATFORM == 1073741836   \* 0x4000000C
TPMT_TK_HASHCHECK_Unmarshal(ctx) ==
    IF ~CanUnmarshal(ctx, 2) THEN [ok |-> FALSE, ctx |-> ctx]
    ELSE IF RdU16(ctx.RespBuffer, ctx.RespBufPtr) # TPM_ST_HASHCHECK
    THEN [ok |-> FALSE, ctx |-> Consumed(ctx, 2)]
    ELSE The({IF ~h.ok \/ h.val \notin {TPM_RH_OWNER, TPM_RH_PLATFORM, TPM_RH_ENDORSEMENT, TPM_RH_NULL}
              THEN [ok |-> FALSE, ctx |-> h.ctx]
              ELSE The({[ok |-> u.ok, ctx |-> u.ctx]
                        : u \in {UnmarshalTPM2B(h.ctx, MaxDigestSize, <<>>)}})
              : h \in {UnmarshalU32(Consumed(ctx, 2))}})

\* TSS_MARSHAL_OPT2B: a NULL buffer is encoded as a size of 0.
MarshalOpt2B(buffer) == IF buffer.isNull THEN U16(0) ELSE TPM2B(buffer.arr)

\* The result: rc; tpm and ctx afterwards; sent, the command lengths handed
\* to the transport; outHMAC as the call leaves it.
TPM2_HMAC(dev, ctx, session, handle, buffer, hashAlg, outHMAC, xport) ==
    The({IF d.result # TPM_RC_SUCCESS
         THEN [rc |-> d.result, tpm |-> d.tpm, ctx |-> d.ctx, sent |-> d.sent, dispatch |-> d.result,
               outHMAC |-> outHMAC]
         ELSE The({[rc |-> IF u.ok THEN TPM_RC_SUCCESS ELSE TPM_RC_INSUFFICIENT,
                    tpm |-> d.tpm, ctx |-> u.ctx, sent |-> d.sent, dispatch |-> d.result, outHMAC |-> u.val]
                   : u \in {UnmarshalTPM2B(d.ctx, MaxDigestSize, outHMAC)}})
         : d \in {DispatchCmd(FALSE, FALSE, dev,
                              BeginCmd(ctx, MarshalOpt2B(buffer) \o U16(hashAlg)),
                              TPM_CC_HMAC, Ptr(<<handle>>), 1, Ptr(<<session>>), 1, xport)}})

\* The handle stored before the result of the dispatch is tested.
TPM2_HMAC_Start_StoresFirst(dev, ctx, session, handle, auth, hashAlg, sequenceHandle, xport) ==
    The({[rc |-> d.result, tpm |-> d.tpm, ctx |-> d.ctx, sent |-> d.sent, dispatch |-> d.result,
          sequenceHandle |-> d.ctx.RetHandle]
         : d \in {DispatchCmd(FALSE, FALSE, dev,
                              BeginCmd(ctx, MarshalOpt2B(auth) \o U16(hashAlg)),
                              TPM_CC_HMAC_Start, Ptr(<<handle>>), 1, Ptr(<<session>>), 1, xport)}})

\* The result: rc, tpm, ctx, sent, and sequenceHandle as the call leaves it.
TPM2_HMAC_Start(dev, ctx, session, handle, auth, hashAlg, sequenceHandle, xport) ==
    The({[rc |-> d.result, tpm |-> d.tpm, ctx |-> d.ctx, sent |-> d.sent, dispatch |-> d.result,
          sequenceHandle |-> IF d.result # TPM_RC_SUCCESS THEN sequenceHandle
                             ELSE d.ctx.RetHandle]
         : d \in {DispatchCmd(FALSE, FALSE, dev,
                              BeginCmd(ctx, MarshalOpt2B(auth) \o U16(hashAlg)),
                              TPM_CC_HMAC_Start, Ptr(<<handle>>), 1, Ptr(<<session>>), 1, xport)}})

\* The result: rc, tpm, ctx, sent.
TPM2_SequenceUpdate(dev, ctx, session, sequenceHandle, buffer, xport) ==
    The({[rc |-> d.result, tpm |-> d.tpm, ctx |-> d.ctx, sent |-> d.sent, dispatch |-> d.result]
         : d \in {DispatchCmd(FALSE, FALSE, dev, BeginCmd(ctx, MarshalOpt2B(buffer)),
                              TPM_CC_SequenceUpdate, Ptr(<<sequenceHandle>>), 1,
                              Ptr(<<session>>), 1, xport)}})

\* The result: rc, tpm, ctx, sent, and result, the digest as the call leaves
\* it.  The ticket is decoded whether or not the caller asked for it.
TPM2_SequenceComplete(dev, ctx, session, sequenceHandle, buffer, hierarchy, result, xport) ==
    The({IF d.result # TPM_RC_SUCCESS
         THEN [rc |-> d.result, tpm |-> d.tpm, ctx |-> d.ctx, sent |-> d.sent, dispatch |-> d.result,
               result |-> result]
         ELSE The({IF ~u.ok
                   THEN [rc |-> TPM_RC_INSUFFICIENT, tpm |-> d.tpm, ctx |-> u.ctx,
                         sent |-> d.sent, dispatch |-> d.result, result |-> u.val]
                   ELSE The({[rc |-> IF t.ok THEN TPM_RC_SUCCESS ELSE TPM_RC_INSUFFICIENT,
                              tpm |-> d.tpm, ctx |-> t.ctx, sent |-> d.sent, dispatch |-> d.result, result |-> u.val]
                             : t \in {TPMT_TK_HASHCHECK_Unmarshal(u.ctx)}})
                   : u \in {UnmarshalTPM2B(d.ctx, MaxDigestSize, result)}})
         : d \in {DispatchCmd(FALSE, FALSE, dev,
                              BeginCmd(ctx, MarshalOpt2B(buffer) \o U32(hierarchy)),
                              TPM_CC_SequenceComplete, Ptr(<<sequenceHandle>>), 1,
                              Ptr(<<session>>), 1, xport)}})

\* TSS_UNMARSHAL of the TPM2B structures of a response one after another, into
\* buffers that held olds; the first failure ends the decoding and leaves the
\* later buffers alone.  The contents of a structure are taken as opaque
\* bytes.  The result is [ok, vals, ctx].
RECURSIVE UnmarshalTPM2Bs(_, _)
UnmarshalTPM2Bs(ctx, olds) ==
    IF olds = <<>> THEN [ok |-> TRUE, vals |-> <<>>, ctx |-> ctx]
    ELSE The({IF ~u.ok THEN [ok |-> FALSE, vals |-> <<u.val>> \o Tail(olds), ctx |-> u.ctx]
              ELSE The({[ok |-> rest.ok, vals |-> <<u.val>> \o rest.vals, ctx |-> rest.ctx]
                        : rest \in {UnmarshalTPM2Bs(u.ctx, Tail(olds))}})
              : u \in {UnmarshalTPM2B(ctx, MAX_RESPONSE_BUFFER, Head(olds))}})

\* TPMT_TK_CREATION_Unmarshal: the tag, which must be TPM_ST_CREATION, the
\* hierarchy and a digest.  The result is [ok, val, ctx], val the digest.
TPM_ST_CREATION == 32801        \* 0x8021
TPMT_TK_CREATION_Unmarshal(ctx, old) ==
    IF ~CanUnmarshal(ctx, 2) THEN [ok |-> FALSE, val |-> old, ctx |-> ctx]
    ELSE IF RdU16(ctx.RespBuffer, ctx.RespBufPtr) # TPM_ST_CREATION
    THEN [ok |-> FALSE, val |-> old, ctx |-> Consumed(ctx, 2)]
    ELSE The({IF ~h.ok \/ h.val \notin {TPM_RH_OWNER, TPM_RH_PLATFORM, TPM_RH_ENDORSEMENT, TPM_RH_NULL}
              THEN [ok |-> FALSE, val |-> old, ctx |-> h.ctx]
              ELSE UnmarshalTPM2B(h.ctx, MaxDigestSize, old)
              : h \in {UnmarshalU32(Consumed(ctx, 2))}})

\* params holds the encodings of inSensitive, inPublic, outsideInfo and
\* creationPCR one after another; out the output parameters: objectHandle,
\* public (outPublic, creationData and creationHash) and creationTicket.
TPM2_CreatePrimary(dev, ctx, session, primaryHandle, params, out, xport) ==
    The({IF d.result # TPM_RC_SUCCESS
         THEN [rc |-> d.result, tpm |-> d.tpm, ctx |-> d.ctx, sent |-> d.sent,
               dispatch |-> d.result, out |-> out]
         ELSE The({IF ~u.ok
                   THEN [rc |-> TPM_RC_INSUFFICIENT, tpm |-> d.tpm, ctx |-> u.ctx,
                         sent |-> d.sent, dispatch |-> d.result,
                         out |-> [out EXCEPT !.objectHandle = d.ctx.RetHandle,
                                             !.public = u.vals]]
                   ELSE The({[rc |-> IF t.ok THEN TPM_RC_SUCCESS ELSE TPM_RC_INSUFFICIENT,
                              tpm |-> d.tpm, ctx |-> t.ctx, sent |-> d.sent,
                              dispatch |-> d.result,
                              out |-> [objectHandle |-> d.ctx.RetHandle, public |-> u.vals,
                                       creationTicket |-> t.val]]
                             : t \in {TPMT_TK_CREATION_Unmarshal(u.ctx, out.creationTicket)}})
                   : u \in {UnmarshalTPM2Bs(d.ctx, out.public)}})
         : d \in {DispatchCmd(FALSE, FALSE, dev, BeginCmd(ctx, params),
                              TPM_CC_CreatePrimary, Ptr(<<primaryHandle>>), 1,
                              Ptr(<<session>>), 1, xport)}})

\* dataSize bytes from the start of the caller's array.
BytesAt_FromStart(data, dataSize) == SubSeq(data.arr, 1, dataSize)

\* dataSize bytes at data, a position in the caller's array.
BytesAt(data, dataSize) == SubSeq(data.arr, data.pos + 1, data.pos + dataSize)

TSS_HMAC(dev, ctx, session, handle, data, dataSize, outHMAC, xport) ==
    IF UGt(dataSize, MAX_DIGEST_BUFFER)
    THEN [rc |-> TPM_RC_SIZE, tpm |-> dev, ctx |-> ctx, sent |-> <<>>, outHMAC |-> outHMAC]
    ELSE TPM2_HMAC(dev, ctx, session, handle, Ptr(BytesAt(data, dataSize)), TPM_ALG_NULL,
                   outHMAC, xport)

TSS_SequenceUpdate(dev, ctx, session, sequenceHandle, data, dataSize, xport) ==
    IF UGt(dataSize, MAX_DIGEST_BUFFER)
    THEN [rc |-> TPM_RC_SIZE, tpm |-> dev, ctx |-> ctx, sent |-> <<>>]
    ELSE TPM2_SequenceUpdate(dev, ctx, session, sequenceHandle,
                             Ptr(BytesAt(data, dataSize)), xport)

TSS_SequenceComplete(dev, ctx, session, sequenceHandle, data, dataSize, result, xport) ==
    IF UGt(dataSize, MAX_DIGEST_BUFFER)
    THEN [rc |-> TPM_RC_SIZE, tpm |-> dev, ctx |-> ctx, sent |-> <<>>, result |-> result]
    ELSE TPM2_SequenceComplete(dev, ctx, session, sequenceHandle,
                               Ptr(BytesAt(data, dataSize)), TPM_RH_NULL, result, xport)

TPM_CC_Hash == 381              \* 0x17D

\* The result: rc, tpm, ctx, sent, and outHash as the call leaves it.  The
\* ticket is decoded whether or not the caller asked for it.
TPM2_Hash(dev, ctx, data, hashAlg, hierarchy, outHash, xport) ==
    The({IF d.result # TPM_RC_SUCCESS
         THEN [rc |-> d.result, tpm |-> d.tpm, ctx |-> d.ctx, sent |-> d.sent,
               dispatch |-> d.result, outHash |-> outHash]
         ELSE The({IF ~u.ok
                   THEN [rc |-> TPM_RC_INSUFFICIENT, tpm |-> d.tpm, ctx |-> u.ctx,
                         sent |-> d.sent, dispatch |-> d.result, outHash |-> u.val]
                   ELSE The({[rc |-> IF t.ok THEN TPM_RC_SUCCESS ELSE TPM_RC_INSUFFICIENT,
                              tpm |-> d.tpm, ctx |-> t.ctx, sent |-> d.sent,
                              dispatch |-> d.result, outHash |-> u.val]
                             : t \in {TPMT_TK_HASHCHECK_Unmarshal(u.ctx)}})
                   : u \in {UnmarshalTPM2B(d.ctx, MaxDigestSize, outHash)}})
         : d \in {DispatchCmd(FALSE, FALSE, dev,
                              BeginCmd(ctx, MarshalOpt2B(data) \o U16(hashAlg) \o U32(hierarchy)),
                              TPM_CC_Hash, NullPtr, 0, NullPtr, 0, xport)}})

TSS_Hash(dev, ctx, data, dataSize, hashAlg, outHash, xport) ==
    IF UGt(dataSize, MAX_DIGEST_BUFFER)
    THEN [rc |-> TPM_RC_SIZE, tpm |-> dev, ctx |-> ctx, sent |-> <<>>, outHash |-> outHash]
    ELSE TPM2_Hash(dev, ctx, Ptr(BytesAt(data, dataSize)), hashAlg, TPM_RH_NULL,
                   outHash, xport)

-----------------------------------------------------------------------------
(* Calls of TSS_StartAuthSession: the arguments, the generated nonce and   *)
(* the device's answer are drawn in the initial state.                     *)

HmacSessionHandle == 33554432   \* 0x02000000, the first HMAC session
NonceTPM == <<187, 204>>

\* Answers to StartAuthSession: a handle and a nonce under either tag, a nonce
\* cut short, a handle of 0, a size field one too large, an error, and the
\* vendor-only status with and without a trailing empty TPM2B.
StartResponses ==
    {Response(TPM_ST_NO_SESSIONS, 0, TPM_RC_SUCCESS, U32(HmacSessionHandle) \o TPM2B(NonceTPM)),
     Response(TPM_ST_SESSIONS, 0, TPM_RC_SUCCESS, U32(HmacSessionHandle) \o U32(4) \o TPM2B(NonceTPM)),
     Response(TPM_ST_NO_SESSIONS, 0, TPM_RC_SUCCESS, U32(HmacSessionHandle) \o <<0, 2, 187>>),
     Response(TPM_ST_NO_SESSIONS, 0, TPM_RC_SUCCESS, U32(0) \o TPM2B(NonceTPM)),
     Response(TPM_ST_NO_SESSIONS, 1, TPM_RC_SUCCESS, U32(HmacSessionHandle) \o TPM2B(NonceTPM)),
     Response(TPM_ST_NO_SESSIONS, 0, RawValueParam1, <<>>),
     Response(TPM_ST_NO_SESSIONS, 0, RawVendorOnly, <<>>),
     Response(TPM_ST_NO_SESSIONS, 0, RawVendorOnly, TPM2B(<<>>))}

StartSessions ==
    {ss \in PriorSessions : /\ ss.SessIn.sessionHandle = 0
                            /\ ss.SessIn.sessionAttributes = 96
                            /\ ss.SessOut.sessionAttributes = 32}

StartInit ==
    /\ tpm \in {[tpm_comm_handle |-> h, LastRawResponse |-> 0] : h \in {"NULL", "open"}}
    /\ CmdCtx = InitCmdCtx
    /\ lastCall \in {[op |-> "start_args", sessionType |-> t, authHash |-> a, sessAttrs |-> f,
                        session |-> ss, seed |-> sd, xport |-> x] :
                        t \in {0, 1},
                        a \in {TPM_ALG_SHA1, TPM_ALG_SHA256, TPM_ALG_SHA384, TPM_ALG_NULL},
                        f \in {0, 1, 97}, ss \in StartSessions, sd \in {0, 100},
                        x \in {[ok |-> FALSE, resp |-> <<>>]}
                              \cup {[ok |-> TRUE, resp |-> r] : r \in StartResponses}}

TSS_StartAuthSession ==
    /\ lastCall.op = "start_args"
    /\ \E r \in {StartAuthSession(tpm, CmdCtx, lastCall.sessionType, lastCall.authHash,
                                   lastCall.sessAttrs, lastCall.session, lastCall.seed,
                                   lastCall.xport)} :
          /\ tpm' = r.tpm
          /\ CmdCtx' = r.ctx
          /\ lastCall' = [op |-> "start", args |-> lastCall, rc |-> r.rc, sent |-> r.sent,
                          nonceCaller |-> r.nonceCaller, session |-> r.session]

StartNext == TSS_StartAuthSession

StartSpec == StartInit /\ [][StartNext]_vars

-----------------------------------------------------------------------------
(* SignData, one step per command it issues.  The arguments and the stack  *)
(* garbage in its digest local are drawn in the initial state; the answer  *)
(* of the transport to each command is drawn when the command is issued.   *)
(* lastCall holds the arguments, the locals, pc (the next step) and cmds,  *)
(* the commands handed to the transport so far: the bytes of each, the     *)
(* answer of the transport and the TPM_RC its wrapper returned.            *)

MaxUpdates == 4                 \* SequenceUpdate commands followed in one run

TokenByte(i) == (7 * i + 3) % 256
\* Token sizes around the small input limits, and around MAX_DIGEST_BUFFER.
SmallTokenSizes == 0..5
LargeTokenSizes == {MAX_DIGEST_BUFFER, MAX_DIGEST_BUFFER + 1, MAX_DIGEST_BUFFER + 2}
InputLimits == {0, 1, 2, MAX_DIGEST_BUFFER, MAX_DIGEST_BUFFER + 1}
SigBufSizes == {31, 32, 33}

SeqHandle == NewHandle
DeviceDigest(n) == [i \in 1..n |-> 16 + i]
\* The response authorization area of a password session.
RespAuth == TPM2B(<<>>) \o <<1>> \o TPM2B(<<>>)
NullTicket == U16(TPM_ST_HASHCHECK) \o U32(TPM_RH_NULL) \o TPM2B(<<>>)
PropertyList(count, property, value) ==
    <<0>> \o U32(TPM_CAP_TPM_PROPERTIES) \o U32(count) \o U32(property) \o U32(value)

NoAnswer == [ok |-> FALSE, resp |-> <<>>]
Answers(R) == {NoAnswer} \cup {[ok |-> TRUE, resp |-> r] : r \in R}

\* Answers to the capability query: the input limit, a list of no property,
\* another property, an error, no answer.
CapAnswers ==
    Answers({Response(TPM_ST_NO_SESSIONS, 0, TPM_RC_SUCCESS,
                      PropertyList(1, TPM_PT_INPUT_BUFFER, m)) : m \in InputLimits}
            \cup {Response(TPM_ST_NO_SESSIONS, 0, TPM_RC_SUCCESS,
                           <<0>> \o U32(TPM_CAP_TPM_PROPERTIES) \o U32(0)),
                  Response(TPM_ST_NO_SESSIONS, 0, TPM_RC_SUCCESS,
                           PropertyList(1, TPM_PT_INPUT_BUFFER + 1, 2)),
                  Response(TPM_ST_NO_SESSIONS, 0, RawValueParam1, <<>>)})

\* Answers to the commands that carry a session: success, an error, the
\* vendor-only status in front of a success body, no answer.
SessionAnswers(body) ==
    Answers({Response(TPM_ST_SESSIONS, 0, TPM_RC_SUCCESS, body),
             Response(TPM_ST_SESSIONS, 0, RawValueParam1, <<>>),
             Response(TPM_ST_SESSIONS, 0, RawVendorOnly, <<>>)})

StartAnswers == SessionAnswers(U32(SeqHandle) \o U32(0) \o RespAuth)
UpdateAnswers == SessionAnswers(U32(0) \o RespAuth)
\* A SHA-256 digest, and a digest of 20 bytes only.
DigestAnswers(ticket) ==
    SessionAnswers(U32(34 + Len(ticket)) \o TPM2B(DeviceDigest(32)) \o ticket \o RespAuth)
    \cup Answers({Response(TPM_ST_SESSIONS, 0, TPM_RC_SUCCESS,
                           U32(22 + Len(ticket)) \o TPM2B(DeviceDigest(20)) \o ticket \o RespAuth),
                  Response(TPM_ST_SESSIONS, 0, RawVendorOnly, TPM2B(DeviceDigest(32)) \o ticket)})
HmacAnswers == DigestAnswers(<<>>)
CompleteAnswers == DigestAnswers(NullTicket)

SignSessions ==
    {[SessIn |-> si, SessOut |-> [nonce |-> <<>>, sessionAttributes |-> 0, hmac |-> <<>>]]
     : si \in {PwSessIn, HmacSessIn}}

\* SignData entered with a token of n bytes, a signature buffer of c bytes
\* and the bytes g where its digest local will be.
SignEntered(ss, n, c, g) ==
    [op |-> "sign", pc |-> "entry", sess |-> ss,
     tokenData |-> [i \in 1..n |-> TokenByte(i)], tokenSize |-> n,
     signatureBuffer |-> [i \in 1..c |-> 170], sigBufSize |-> c,
     capacity |-> c, digest |-> [i \in 1..MaxDigestSize |-> g],
     MaxInputBuffer |-> 0, hSeq |-> 0, curPos |-> 0, bytesLeft |-> 0,
     rc |-> TPM_RC_SUCCESS, result |-> 0, cmds |-> <<>>]

SignInit ==
    /\ tpm \in {[tpm_comm_handle |-> h, LastRawResponse |-> 0] : h \in {"NULL", "open"}}
    /\ CmdCtx = InitCmdCtx
    /\ lastCall \in {SignEntered(ss, n, c, g) : ss \in SignSessions, n \in SmallTokenSizes,
                                                 c \in SigBufSizes, g \in {0, 204}}
                      \cup {SignEntered(ss, n, TSS_GetDigestSize(TPM_ALG_SHA256), 0) :
                                ss \in {[SessIn |-> PwSessIn,
                                         SessOut |-> [nonce |-> <<>>, sessionAttributes |-> 0,
                                                      hmac |-> <<>>]]},
                                n \in LargeTokenSizes}

\* The command a wrapper handed to the transport, if it did, with the answer
\* of the transport.
Issued(cmds, r, xport) ==
    IF r.sent = <<>> THEN cmds
    ELSE Append(cmds, [bytes |-> SubSeq(r.ctx.CmdBuffer, 1, r.ctx.CmdSize), rc |-> r.rc,
                       answer |-> xport])

\* The positions in cmds of the commands with code cc.
CommandsOf(cmds, cc) == {i \in 1..Len(cmds) : RdU32(cmds[i].bytes, 6) = cc}

\* CHECK_CMD_RESULT failing: the jump to end, where result = sigBufSize.
SignFailed(l) == [l EXCEPT !.pc = "done", !.result = l.sigBufSize]

\* The return of sigSize without the copy.
SignCopied_NoCopy(l, sigSize) ==
    [l EXCEPT !.pc = "done", !.sigBufSize = sigSize, !.result = sigSize]

\* The copy of sigSize bytes of digest.t.buffer, and the return of sigSize.
SignCopied(l, sigSize) ==
    [l EXCEPT !.pc = "done",
              !.signatureBuffer = Store(l.signatureBuffer, 0, SubSeq(l.digest, 1, sigSize)),
              !.sigBufSize = sigSize, !.result = sigSize]

\* Entry: the capacity test and, when it passes, the capability query and the
\* choice between the one-shot HMAC and the sequence.
SignData_Entry ==
    /\ lastCall.op = "sign" /\ lastCall.pc = "entry"
    /\ LET sigSize == TSS_GetDigestSize(TPM_ALG_SHA256)
       IN  IF lastCall.sigBufSize < sigSize
           THEN /\ lastCall' = [lastCall EXCEPT !.pc = "done", !.result = sigSize]
                /\ UNCHANGED <<tpm, CmdCtx>>
           ELSE \E x \in CapAnswers :
                \E p \in {GetTpmProperty(tpm, CmdCtx, TPM_PT_INPUT_BUFFER, x)} :
                   /\ tpm' = p.tpm
                   /\ CmdCtx' = p.ctx
                   /\ lastCall' =
                        [lastCall EXCEPT
                            !.sigBufSize = 0, !.MaxInputBuffer = p.value,
                            !.cmds = Issued(lastCall.cmds, p, x),
                            !.pc = IF UGt(lastCall.tokenSize, p.value) THEN "start" ELSE "hmac",
                            !.hSeq = IF UGt(lastCall.tokenSize, p.value) THEN TPM_RH_NULL ELSE @,
                            !.bytesLeft = IF UGt(lastCall.tokenSize, p.value)
                                          THEN lastCall.tokenSize ELSE @]

SignData_HMAC_Start ==
    /\ lastCall.op = "sign" /\ lastCall.pc = "start"
    /\ \E x \in StartAnswers :
       \E r \in {TPM2_HMAC_Start(tpm, CmdCtx, lastCall.sess, DRS_ID_KEY_HANDLE, NullPtr,
                                  TPM_ALG_SHA256, lastCall.hSeq, x)} :
          /\ tpm' = r.tpm
          /\ CmdCtx' = r.ctx
          /\ lastCall' =
               The({IF r.rc # TPM_RC_SUCCESS THEN SignFailed(l) ELSE [l EXCEPT !.pc = "update"]
                    : l \in {[lastCall EXCEPT !.rc = r.rc, !.hSeq = r.sequenceHandle,
                                               !.cmds = Issued(lastCall.cmds, r, x)]}})

\* One iteration of the do-while loop.  bytesLeft > MaxInputBuffer holds on
\* entry to every iteration, so the subtraction does not wrap.
SequenceUpdateIteration(logged) ==
    \E x \in UpdateAnswers :
    \E r \in {TSS_SequenceUpdate(tpm, CmdCtx, lastCall.sess, lastCall.hSeq,
                                  [arr |-> lastCall.tokenData, pos |-> lastCall.curPos],
                                  lastCall.MaxInputBuffer, x)} :
       /\ tpm' = r.tpm
       /\ CmdCtx' = r.ctx
       /\ lastCall' =
            The({IF r.rc # TPM_RC_SUCCESS THEN SignFailed(l)
                 ELSE [l EXCEPT !.bytesLeft = @ - l.MaxInputBuffer,
                                !.curPos = @ + l.MaxInputBuffer,
                                !.pc = IF UGt(l.bytesLeft - l.MaxInputBuffer, l.MaxInputBuffer)
                                       THEN "update" ELSE "complete"]
                 : l \in {[lastCall EXCEPT
                              !.rc = r.rc,
                              !.cmds = IF logged THEN Issued(lastCall.cmds, r, x) ELSE @]}})

SignData_SequenceUpdate ==
    /\ lastCall.op = "sign" /\ lastCall.pc = "update"
    /\ Cardinality(CommandsOf(lastCall.cmds, TPM_CC_SequenceUpdate)) < MaxUpdates
    /\ SequenceUpdateIteration(TRUE)

SignData_SequenceComplete ==
    /\ lastCall.op = "sign" /\ lastCall.pc = "complete"
    /\ \E x \in CompleteAnswers :
       \E r \in {TSS_SequenceComplete(tpm, CmdCtx, lastCall.sess, lastCall.hSeq,
                                       [arr |-> lastCall.tokenData, pos |-> lastCall.curPos],
                                       lastCall.bytesLeft, lastCall.digest, x)} :
          /\ tpm' = r.tpm
          /\ CmdCtx' = r.ctx
          /\ lastCall' =
               The({IF r.rc # TPM_RC_SUCCESS THEN SignFailed(l)
                    ELSE SignCopied(l, TSS_GetDigestSize(TPM_ALG_SHA256))
                    : l \in {[lastCall EXCEPT !.rc = r.rc,
                                               !.digest = Store(@, 0, r.result),
                                               !.cmds = Issued(lastCall.cmds, r, x)]}})

SignData_HMAC ==
    /\ lastCall.op = "sign" /\ lastCall.pc = "hmac"
    /\ \E x \in HmacAnswers :
       \E r \in {TSS_HMAC(tpm, CmdCtx, lastCall.sess, DRS_ID_KEY_HANDLE,
                           [arr |-> lastCall.tokenData, pos |-> 0],
                           lastCall.tokenSize, lastCall.digest, x)} :
          /\ tpm' = r.tpm
          /\ CmdCtx' = r.ctx
          /\ lastCall' =
               The({IF r.rc # TPM_RC_SUCCESS THEN SignFailed(l)
                    ELSE SignCopied(l, TSS_GetDigestSize(TPM_ALG_SHA256))
                    : l \in {[lastCall EXCEPT !.rc = r.rc,
                                               !.digest = Store(@, 0, r.outHMAC),
                                               !.cmds = Issued(lastCall.cmds, r, x)]}})

SignNext ==
    \/ SignData_Entry
    \/ SignData_HMAC_Start
    \/ SignData_SequenceUpdate
    \/ SignData_SequenceComplete
    \/ SignData_HMAC

SignSpec == SignInit /\ [][SignNext]_vars

-----------------------------------------------------------------------------
(* SignData run to its end.  cmds holds at most MaxUpdates update commands: *)
(* the iterations after that are taken without being recorded, so that the *)
(* bound is on the record and not on the loop.  The caller's thread keeps  *)
(* running and every transport call returns, with an answer or a failure:  *)
(* a step that is possible is eventually taken.                            *)

SignData_SequenceUpdate_Unrecorded ==
    /\ lastCall.op = "sign" /\ lastCall.pc = "update"
    /\ Cardinality(CommandsOf(lastCall.cmds, TPM_CC_SequenceUpdate)) >= MaxUpdates
    /\ SequenceUpdateIteration(FALSE)

\* Tokens of 1 and 3 bytes, so that every loop that ends does so within a
\* few iterations; a password session; a signature buffer one byte too small and
\* one of the size of the digest.
SignRunInit ==
    /\ tpm = [tpm_comm_handle |-> "open", LastRawResponse |-> 0]
    /\ CmdCtx = InitCmdCtx
    /\ lastCall \in {SignEntered([SessIn |-> PwSessIn,
                                   SessOut |-> [nonce |-> <<>>, sessionAttributes |-> 0,
                                                hmac |-> <<>>]],
                                  n, c, 0) :
                        n \in {1, 3},
                        c \in {TSS_GetDigestSize(TPM_ALG_SHA256) - 1,
                               TSS_GetDigestSize(TPM_ALG_SHA256)}}

SignRunNext == SignNext \/ SignData_SequenceUpdate_Unrecorded

SignRunSpec == SignRunInit /\ [][SignRunNext]_vars /\ WF_vars(SignRunNext)

-----------------------------------------------------------------------------
(* Calls of TSS_GetTpmProperty: the property asked for and the answer of   *)
(* the transport are drawn in the initial state.                           *)

Properties == {TPM_PT_INPUT_BUFFER, TPM_PT_INPUT_BUFFER + 1}
\* Values a device reports, 0xFFFFFFFF among them.
PropertyValues == {0, 7, MAX_DIGEST_BUFFER, 65536, -1}

\* Answers to the query: one property and its value; an empty list; a list of
\* two properties; a list of handles; a list cut short; an error; the
\* vendor-only status in front of a list; no answer.
PropAnswers ==
    Answers({Response(TPM_ST_NO_SESSIONS, 0, TPM_RC_SUCCESS, PropertyList(1, p, v))
             : p \in Properties, v \in PropertyValues}
            \cup {Response(TPM_ST_NO_SESSIONS, 0, TPM_RC_SUCCESS,
                           PropertyList(2, p, 7) \o U32(p + 1) \o U32(8)) : p \in Properties}
            \cup {Response(TPM_ST_NO_SESSIONS, 0, RawVendorOnly, PropertyList(1, p, 7))
                  : p \in Properties}
            \cup {Response(TPM_ST_NO_SESSIONS, 0, TPM_RC_SUCCESS,
                           <<0>> \o U32(TPM_CAP_TPM_PROPERTIES) \o U32(0)),
                  Response(TPM_ST_NO_SESSIONS, 0, TPM_RC_SUCCESS,
                           <<0>> \o U32(TPM_CAP_HANDLES) \o U32(1) \o U32(TPM_PT_INPUT_BUFFER)),
                  Response(TPM_ST_NO_SESSIONS, 0, TPM_RC_SUCCESS,
                           <<0>> \o U32(TPM_CAP_HANDLES) \o U32(2) \o U32(TPM_PT_INPUT_BUFFER)
                               \o U32(7)),
                  Response(TPM_ST_NO_SESSIONS, 0, TPM_RC_SUCCESS,
                           <<0>> \o U32(TPM_CAP_TPM_PROPERTIES) \o U32(1)
                               \o U32(TPM_PT_INPUT_BUFFER)),
                  Response(TPM_ST_NO_SESSIONS, 0, TPM_RC_SUCCESS,
                           <<2>> \o U32(TPM_CAP_TPM_PROPERTIES) \o U32(1)
                               \o U32(TPM_PT_INPUT_BUFFER) \o U32(7)),
                  Response(TPM_ST_NO_SESSIONS, 0, RawValueParam1, <<>>)})

PropInit ==
    /\ tpm \in {[tpm_comm_handle |-> h, LastRawResponse |-> 0] : h \in {"NULL", "open"}}
    /\ CmdCtx = InitCmdCtx
    /\ lastCall \in {[op |-> "prop_args", property |-> p, xport |-> x] :
                        p \in Properties, x \in PropAnswers}

TSS_GetTpmProperty ==
    /\ lastCall.op = "prop_args"
    /\ \E r \in {GetTpmProperty(tpm, CmdCtx, lastCall.property, lastCall.xport)} :
          /\ tpm' = r.tpm
          /\ CmdCtx' = r.ctx
          /\ lastCall' = [op |-> "prop", args |-> lastCall, value |-> r.value,
                          cmds |-> Issued(<<>>, r, lastCall.xport)]

PropNext == TSS_GetTpmProperty

PropSpec == PropInit /\ [][PropNext]_vars

-----------------------------------------------------------------------------
(* Calls of the command wrappers: the wrapper, the earlier contents of its *)
(* output parameters and the answer of the transport are drawn in the      *)
(* initial state.                                                          *)

Wrappers == {"CreatePrimary", "HMAC", "HMAC_Start", "SequenceComplete", "StartAuthSession"}
PriorBytes == <<9, 9>>
CreationTicket == U16(TPM_ST_CREATION) \o U32(TPM_RH_OWNER) \o TPM2B(DeviceDigest(2))

\* What each wrapper finds in a complete response, after the header: the
\* handle and parameter size that TSS_DispatchCmd takes, and the values the
\* wrapper decodes.
Decoded(w) ==
    CASE w = "CreatePrimary" ->
            U32(NewHandle) \o U32(0) \o TPM2B(<<1, 2, 3>>) \o TPM2B(<<4>>)
                \o TPM2B(DeviceDigest(3)) \o CreationTicket
      [] w = "HMAC" -> U32(0) \o TPM2B(DeviceDigest(4))
      [] w = "HMAC_Start" -> U32(SeqHandle) \o U32(0)
      [] w = "SequenceComplete" -> U32(0) \o TPM2B(DeviceDigest(4)) \o NullTicket
      [] w = "StartAuthSession" -> U32(HmacSessionHandle) \o U32(0) \o TPM2B(NonceTPM)

\* The output parameters before the call, and after a complete response.
PriorOut(w) ==
    CASE w = "CreatePrimary" ->
            [objectHandle |-> TPM_RH_NULL, public |-> <<PriorBytes, PriorBytes, PriorBytes>>,
             creationTicket |-> PriorBytes]
      [] w = "HMAC" -> [outHMAC |-> PriorBytes]
      [] w = "HMAC_Start" -> [sequenceHandle |-> TPM_RH_NULL]
      [] w = "SequenceComplete" -> [result |-> PriorBytes]
      [] w = "StartAuthSession" -> [sessionHandle |-> TPM_RH_NULL, nonceTPM |-> PriorBytes]
DecodedOut(w) ==
    CASE w = "CreatePrimary" ->
            [objectHandle |-> NewHandle, public |-> << <<1, 2, 3>>, <<4>>, DeviceDigest(3) >>,
             creationTicket |-> DeviceDigest(2)]
      [] w = "HMAC" -> [outHMAC |-> DeviceDigest(4)]
      [] w = "HMAC_Start" -> [sequenceHandle |-> SeqHandle]
      [] w = "SequenceComplete" -> [result |-> DeviceDigest(4)]
      [] w = "StartAuthSession" -> [sessionHandle |-> HmacSessionHandle, nonceTPM |-> NonceTPM]

\* Answers to a wrapper's command: the complete response followed by the
\* authorization area, every response cut short, an error, the vendor-only
\* status, no answer.
WrapAnswers(w) ==
    SessionAnswers(Decoded(w) \o RespAuth)
    \cup Answers({Response(TPM_ST_SESSIONS, 0, TPM_RC_SUCCESS, SubSeq(Decoded(w), 1, n))
                  : n \in 0..Len(Decoded(w))})

WrapInit ==
    /\ tpm \in {[tpm_comm_handle |-> h, LastRawResponse |-> 0] : h \in {"NULL", "open"}}
    /\ CmdCtx = InitCmdCtx
    /\ lastCall \in {[op |-> "wrap_args", wrapper |-> w, out |-> PriorOut(w), xport |-> x] :
                        w \in Wrappers, x \in UNION {WrapAnswers(v) : v \in Wrappers}}
    /\ lastCall.xport \in WrapAnswers(lastCall.wrapper)

\* The call of wrapper w, with its output parameters gathered in out.
Wrapped(w, dev, ctx, out, xport) ==
    LET sess == [SessIn |-> PwSessIn]
        R(r, o) == [rc |-> r.rc, dispatch |-> r.dispatch, tpm |-> r.tpm, ctx |-> r.ctx, out |-> o]
    IN
    CASE w = "CreatePrimary" ->
            The({R(r, r.out) : r \in {TPM2_CreatePrimary(dev, ctx, sess, TPM_RH_OWNER,
                                                         U16(0), out, xport)}})
      [] w = "HMAC" ->
            The({R(r, [outHMAC |-> r.outHMAC])
                 : r \in {TPM2_HMAC(dev, ctx, sess, DRS_ID_KEY_HANDLE, Ptr(<<1>>), TPM_ALG_NULL,
                                    out.outHMAC, xport)}})
      [] w = "HMAC_Start" ->
            The({R(r, [sequenceHandle |-> r.sequenceHandle])
                 : r \in {TPM2_HMAC_Start(dev, ctx, sess, DRS_ID_KEY_HANDLE, NullPtr,
                                          TPM_ALG_SHA256, out.sequenceHandle, xport)}})
      [] w = "SequenceComplete" ->
            The({R(r, [result |-> r.result])
                 : r \in {TPM2_SequenceComplete(dev, ctx, sess, SeqHandle, Ptr(<<1>>),
                                                TPM_RH_NULL, out.result, xport)}})
      [] w = "StartAuthSession" ->
            The({R(r, [sessionHandle |-> r.sessionHandle, nonceTPM |-> r.nonceTPM])
                 : r \in {TPM2_StartAuthSession(dev, ctx, TPM_RH_NULL, TPM_RH_NULL, <<1, 2>>, 0,
                                                TPM_ALG_SHA256, out.sessionHandle,
                                                out.nonceTPM, xport)}})

TPM2_Wrapper ==
    /\ lastCall.op = "wrap_args"
    /\ \E r \in {Wrapped(lastCall.wrapper, tpm, CmdCtx, lastCall.out, lastCall.xport)} :
          /\ tpm' = r.tpm
          /\ CmdCtx' = r.ctx
          /\ lastCall' = [op |-> "wrap", args |-> lastCall, rc |-> r.rc,
                          dispatch |-> r.dispatch, out |-> r.out]

WrapNext == TPM2_Wrapper

WrapSpec == WrapInit /\ [][WrapNext]_vars

-----------------------------------------------------------------------------
(* Two callers on two device handles.  BEGIN_CMD gives every caller the    *)
(* address of the one static CmdCtx, and nothing in the file serialises    *)
(* the callers, so their statements interleave.  tpm is here the pair of   *)
(* device handles, tpm[t] being the handle of caller t.  lastCall holds,   *)
(* for each caller, pc (its next step), the command it issues, the answer  *)
(* of its device's transport, handed (the bytes its TSS_SendCommand call   *)
(* handed to the transport) and result (what its TSS_DispatchCmd call      *)
(* returned).  A step is a group of statements of one caller; the          *)
(* interleavings of these groups are among the executions of the unlocked  *)
(* code.                                                                   *)

Callers == {1, 2}

\* The parameter bytes caller t marshals.
CallerParams(t) == [i \in 1..MaxParamLen |-> 16 * t + i]

\* Caller 1 queries a capability, caller 2 creates a primary object.
CallerCmd(t) ==
    IF t = 1 THEN NoHandlesNoSessions(TPM_CC_GetCapability, MaxParamLen)
    ELSE OneHandleOneSession(TPM_CC_CreatePrimary, MaxParamLen - 1)

\* What the device of caller t answers.
CallerAnswers(t) ==
    {[ok |-> FALSE, resp |-> <<>>],
     [ok |-> TRUE, resp |-> Response(TPM_ST_NO_SESSIONS, 0, RawValueParam1, <<>>)],
     [ok |-> TRUE,
      resp |-> IF t = 1
               THEN Response(TPM_ST_NO_SESSIONS, 0, TPM_RC_SUCCESS, U32(t))
               ELSE Response(TPM_ST_SESSIONS, 0, TPM_RC_SUCCESS, U32(NewHandle) \o U32(0))]}

ConcInit ==
    /\ tpm = [t \in Callers |-> [tpm_comm_handle |-> "open", LastRawResponse |-> 0]]
    /\ CmdCtx = InitCmdCtx
    /\ \E x1 \in CallerAnswers(1), x2 \in CallerAnswers(2) :
          lastCall = [op |-> "callers",
                      pc |-> [t \in Callers |-> "begin"],
                      xport |-> <<x1, x2>>,
                      handed |-> [t \in Callers |-> <<>>],
                      result |-> [t \in Callers |-> -1]]

At(t, step) == lastCall.op = "callers" /\ lastCall.pc[t] = step

\* The first n bytes of a static array, of which buf is the part written so
\* far and the rest is still zero.
ArrayPrefix(buf, n) == [i \in 1..n |-> ByteAt(buf, i)]

\* The cmdSize bytes at cmdBuffer that TSS_SendCommand passes on.
HandedBytes(ctx) == ArrayPrefix(ctx.CmdBuffer, ctx.CmdSize)

\* BEGIN_CMD: cmdCtx = &CmdCtx; cmdCtx->ParamSize = 0.
Caller_Begin(t) ==
    /\ At(t, "begin")
    /\ CmdCtx' = [CmdCtx EXCEPT !.ParamSize = 0]
    /\ lastCall' = [lastCall EXCEPT !.pc[t] = "marshal"]
    /\ UNCHANGED tpm

\* TSS_MARSHAL of the caller's parameters: the bytes go through the caller's
\* own cursor paramBuf, which starts at ParamBuffer; ParamSize grows by their
\* number.
Caller_Marshal(t) ==
    /\ At(t, "marshal")
    /\ \E n \in {CallerCmd(t).paramsSize} :
          CmdCtx' = [CmdCtx EXCEPT
                        !.ParamBuffer = Store(@, 0, SubSeq(CallerParams(t), 1, n)),
                        !.ParamSize = @ + n]
    /\ lastCall' = [lastCall EXCEPT !.pc[t] = "build"]
    /\ UNCHANGED tpm

\* TSS_DispatchCmd up to the return of TSS_BuildCommand.
Caller_Build(t) ==
    /\ At(t, "build")
    /\ \E cmd \in {CallerCmd(t)} :
       \E b \in {BuildCommand(cmd.cmdCode, cmd.handles, cmd.numHandles,
                              cmd.sessions, cmd.numSessions,
                              Ptr(ArrayPrefix(CmdCtx.ParamBuffer, CmdCtx.ParamSize)),
                              CmdCtx.ParamSize,
                              Ptr(CmdCtx.CmdBuffer), MAX_COMMAND_BUFFER)} :
          CmdCtx' = [ResetContext(CmdCtx) EXCEPT !.CmdSize = b.ret, !.CmdBuffer = b.buf]
    /\ lastCall' = [lastCall EXCEPT !.pc[t] = "send"]
    /\ UNCHANGED tpm

\* The TSS_SendCommand call and the test of its status.
Caller_Send(t) ==
    /\ At(t, "send")
    /\ \E s \in {SendCommand(FALSE, tpm[t], Ptr(CmdCtx.CmdBuffer), CmdCtx.CmdSize,
                             CmdCtx.RespBuffer, MAX_RESPONSE_BUFFER, lastCall.xport[t])} :
          /\ CmdCtx' = [CmdCtx EXCEPT !.RespBuffer = s.respBuffer, !.RespSize = s.respSize]
          /\ lastCall' = [lastCall EXCEPT
                             !.handed[t] = HandedBytes(CmdCtx),
                             !.pc[t] = IF SendFailed(s.status) THEN "done" ELSE "parse",
                             !.result[t] = IF SendFailed(s.status)
                                           THEN TPM_RC_COMMAND_CODE ELSE @]
    /\ UNCHANGED tpm

\* The rest of TSS_DispatchCmd: the tag test and the decoding of the response.
Caller_Parse(t) ==
    /\ At(t, "parse")
    /\ \E r \in {IF BadTagTest(CmdCtx.RespBuffer)
                 THEN [result |-> TPM_RC_BAD_TAG, tpm |-> tpm[t], ctx |-> CmdCtx]
                 ELSE ParseResponse(tpm[t], CmdCtx, CallerCmd(t).cmdCode)} :
          /\ tpm' = [tpm EXCEPT ![t] = r.tpm]
          /\ CmdCtx' = r.ctx
          /\ lastCall' = [lastCall EXCEPT !.pc[t] = "done", !.result[t] = r.result]

ConcNext ==
    \E t \in Callers :
        \/ Caller_Begin(t)
        \/ Caller_Marshal(t)
        \/ Caller_Build(t)
        \/ Caller_Send(t)
        \/ Caller_Parse(t)

ConcSpec == ConcInit /\ [][ConcNext]_vars

-----------------------------------------------------------------------------
(* Calls of TSS_DispatchCmd with a parameter area that fills most or all   *)
(* of ParamBuffer: the handles, the sessions, the number of parameter      *)
(* bytes and the answer of the transport are drawn in the initial state.   *)

\* Parameter lengths: a short one, and those that leave room in CmdBuffer for
\* the header alone (10 bytes), for the header, MaxHandles handles and the
\* authorization area of two sessions (10 + 8 + 4 + 9 + 12 = 43 bytes), one
\* byte less than each, and none.
LongParamLengths ==
    {MaxParamLen} \cup {MAX_COMMAND_BUFFER - k : k \in {0, 10, 11, 43, 44}}

\* ParamBuffer holding n marshaled parameter bytes.
LongParams(n) == [i \in 1..n |-> i % 256]

LongAnswers ==
    {[ok |-> FALSE, resp |-> <<>>],
     [ok |-> TRUE, resp |-> Response(TPM_ST_SESSIONS, 0, TPM_RC_SUCCESS, U32(0))]}

LongInit ==
    /\ tpm = [tpm_comm_handle |-> "open", LastRawResponse |-> 0]
    /\ CmdCtx = InitCmdCtx
    /\ \E nh \in 0..MaxHandles, ns \in 0..MaxSessions, n \in LongParamLengths,
          x \in LongAnswers :
          lastCall = [op |-> "long_args", numHandles |-> nh, numSessions |-> ns,
                      paramsSize |-> n, xport |-> x]

TSS_DispatchCmd_Long ==
    /\ lastCall.op = "long_args"
    /\ \E r \in {DispatchCmd(FALSE, FALSE, tpm,
                             [CmdCtx EXCEPT !.ParamSize = lastCall.paramsSize,
                                            !.ParamBuffer = LongParams(lastCall.paramsSize)],
                             TPM_CC_HMAC,
                             IF lastCall.numHandles = 0 THEN NullPtr ELSE Ptr(HandleArr),
                             lastCall.numHandles,
                             IF lastCall.numSessions = 0 THEN NullPtr ELSE Ptr(SessionArr),
                             lastCall.numSessions, lastCall.xport)} :
          /\ tpm' = r.tpm
          /\ CmdCtx' = r.ctx
          /\ lastCall' = [op |-> "long", args |-> lastCall, result |-> r.result,
                          buildRet |-> r.buildRet, sent |-> r.sent]

LongNext == TSS_DispatchCmd_Long

LongSpec == LongInit /\ [][LongNext]_vars

-----------------------------------------------------------------------------
(* Calls of the helpers that take a byte array and its length (TSS_HMAC,   *)
(* TSS_Hash, TSS_SequenceUpdate, TSS_SequenceComplete): the helper, the    *)
(* length and the answer of the transport are drawn in the initial state.  *)

SizedHelpers == {"HMAC", "Hash", "SequenceUpdate", "SequenceComplete"}

\* Lengths around MAX_DIGEST_BUFFER; 0x10001, whose low 16 bits are 1;
\* 0x80000000 and 0xFFFFFFFF.
DataSizes ==
    {0, 1, MAX_DIGEST_BUFFER - 1, MAX_DIGEST_BUFFER, MAX_DIGEST_BUFFER + 1,
     MAX_DIGEST_BUFFER + 2, 65537, -2147483647 - 1, -1}

\* The caller's array: as many bytes as the length says, MAX_DIGEST_BUFFER at
\* most in the model, none when the length is above 0x7FFFFFFF.
CallerData(dataSize) ==
    [arr |-> [i \in 1..(IF dataSize > MAX_DIGEST_BUFFER THEN MAX_DIGEST_BUFFER ELSE dataSize)
                |-> TokenByte(i)],
     pos |-> 0]

SizedAnswers(h) ==
    Answers({Response(TPM_ST_SESSIONS, 0, RawValueParam1, <<>>),
             CASE h = "HMAC" ->
                    Response(TPM_ST_SESSIONS, 0, TPM_RC_SUCCESS,
                             U32(34) \o TPM2B(DeviceDigest(32)) \o RespAuth)
               [] h = "Hash" ->
                    Response(TPM_ST_NO_SESSIONS, 0, TPM_RC_SUCCESS,
                             TPM2B(DeviceDigest(32)) \o NullTicket)
               [] h = "SequenceUpdate" ->
                    Response(TPM_ST_SESSIONS, 0, TPM_RC_SUCCESS, U32(0) \o RespAuth)
               [] h = "SequenceComplete" ->
                    Response(TPM_ST_SESSIONS, 0, TPM_RC_SUCCESS,
                             U32(34 + Len(NullTicket)) \o TPM2B(DeviceDigest(32))
                             \o NullTicket \o RespAuth)})

SizedInit ==
    /\ tpm \in {[tpm_comm_handle |-> h, LastRawResponse |-> 0] : h \in {"NULL", "open"}}
    /\ CmdCtx = InitCmdCtx
    /\ \E h \in SizedHelpers, n \in DataSizes :
       \E x \in SizedAnswers(h) :
          lastCall = [op |-> "sized_args", helper |-> h, dataSize |-> n, xport |-> x,
                      tpm |-> tpm]

\* The call of helper h: [rc, tpm, ctx, sent].
Sized(h, dev, ctx, dataSize, xport) ==
    LET session == [SessIn |-> PwSessIn]
        r == CASE h = "HMAC" ->
                    TSS_HMAC(dev, ctx, session, DRS_ID_KEY_HANDLE, CallerData(dataSize),
                             dataSize, <<>>, xport)
               [] h = "Hash" ->
                    TSS_Hash(dev, ctx, CallerData(dataSize), dataSize, TPM_ALG_SHA256,
                             <<>>, xport)
               [] h = "SequenceUpdate" ->
                    TSS_SequenceUpdate(dev, ctx, session, SeqHandle, CallerData(dataSize),
                                       dataSize, xport)
               [] h = "SequenceComplete" ->
                    TSS_SequenceComplete(dev, ctx, session, SeqHandle, CallerData(dataSize),
                                         dataSize, <<>>, xport)
    IN  [rc |-> r.rc, tpm |-> r.tpm, ctx |-> r.ctx, sent |-> r.sent]

TSS_SizedHelper ==
    /\ lastCall.op = "sized_args"
    /\ \E r \in {Sized(lastCall.helper, tpm, CmdCtx, lastCall.dataSize, lastCall.xport)} :
          /\ tpm' = r.tpm
          /\ CmdCtx' = r.ctx
          /\ lastCall' = [op |-> "sized", args |-> lastCall, rc |-> r.rc, sent |-> r.sent]

SizedNext == TSS_SizedHelper

SizedSpec == SizedInit /\ [][SizedNext]_vars

-----------------------------------------------------------------------------
(* The life of a device handle: Initialize_TPM_Codec, commands and         *)
(* Deinit_TPM_Codec in any order.  A transport connection is named by a    *)
(* string; tpm_comm_handle holds the name the last tpm_comm_create call    *)
(* returned, or "NULL".  lastCall holds comm_type, the number of           *)
(* connections created so far, for each connection the number of          *)
(* tpm_comm_destroy calls made on it, whether a command was submitted on a *)
(* destroyed connection, and the last call with its result.                *)

TPM_CC_Startup == 324           \* 0x144
TPM_SU_CLEAR == 0
TPM_RC_INITIALIZE == 256        \* RC_VER1 + 0x000

\* The result: rc, tpm, ctx, sent.
TPM2_Startup(dev, ctx, startupType, xport) ==
    The({[rc |-> d.result, tpm |-> d.tpm, ctx |-> d.ctx, sent |-> d.sent, dispatch |-> d.result]
         : d \in {DispatchCmd(FALSE, FALSE, dev, BeginCmd(ctx, U16(startupType)),
                              TPM_CC_Startup, NullPtr, 0, NullPtr, 0, xport)}})

\* result != TPM_RC_SUCCESS && result != TPM_RC_INITIALIZE, negated.
StartupAccepted_OnlySuccess(rc) == rc = TPM_RC_SUCCESS

StartupAccepted(rc) == rc = TPM_RC_SUCCESS \/ rc = TPM_RC_INITIALIZE

\* created is what tpm_comm_create returns ("NULL" on failure).  The result:
\* result; tpm and ctx afterwards; destroyed, the connection handed to
\* tpm_comm_destroy ("none" if there was no such call); sent, the command
\* lengths handed to the transport; startup, what TPM2_Startup returned (-1
\* if it was not called).
Initialize(tpmNull, dev, ctx, created, commType, xport) ==
    IF tpmNull
    THEN [result |-> TPM_RC_FAILURE, tpm |-> dev, ctx |-> ctx, destroyed |-> "none",
          sent |-> <<>>, startup |-> -1]
    ELSE
    LET d1 == [dev EXCEPT !.tpm_comm_handle = created]
    IN
    IF created = "NULL"
    THEN [result |-> TPM_RC_FAILURE, tpm |-> d1, ctx |-> ctx, destroyed |-> "none",
          sent |-> <<>>, startup |-> -1]
    ELSE IF commType = "TPM_COMM_TYPE_EMULATOR"
    THEN The({IF ~StartupAccepted(s.rc)
              THEN [result |-> s.rc, tpm |-> s.tpm, ctx |-> s.ctx,
                    destroyed |-> s.tpm.tpm_comm_handle, sent |-> s.sent, startup |-> s.rc]
              ELSE [result |-> TPM_RC_SUCCESS, tpm |-> s.tpm, ctx |-> s.ctx,
                    destroyed |-> "none", sent |-> s.sent, startup |-> s.rc]
              : s \in {TPM2_Startup(d1, ctx, TPM_SU_CLEAR, xport)}})
    ELSE [result |-> TPM_RC_SUCCESS, tpm |-> d1, ctx |-> ctx, destroyed |-> "none",
          sent |-> <<>>, startup |-> -1]

\* The connections tpm_comm_create returns, in order.
ConnNames == <<"conn1", "conn2">>
Conns == {ConnNames[i] : i \in 1..Len(ConnNames)}

\* tpm_comm_destroy calls followed per connection.
MaxDestroys == 2

StartupAnswers ==
    Answers({Response(TPM_ST_NO_SESSIONS, 0, rc, <<>>)
             : rc \in {TPM_RC_SUCCESS, TPM_RC_INITIALIZE, RawValueParam1}})

LifeInit ==
    /\ tpm = [tpm_comm_handle |-> "NULL", LastRawResponse |-> 0]
    /\ CmdCtx = InitCmdCtx
    /\ \E t \in {"TPM_COMM_TYPE_EMULATOR", "TPM_COMM_TYPE_LINUX"} :
          lastCall = [op |-> "life", comm_type |-> t, created |-> 0,
                      destroys |-> [c \in Conns |-> 0], stale |-> FALSE,
                      call |-> "none", result |-> 0, sent |-> <<>>, startup |-> -1,
                      createdNow |-> "NULL"]

\* One more tpm_comm_destroy call on connection c.
Destroyed(destroys, c) ==
    IF c \in Conns THEN [destroys EXCEPT ![c] = @ + 1] ELSE destroys

Initialize_TPM_Codec ==
    /\ lastCall.op = "life"
    /\ \E tpmNull \in BOOLEAN, xport \in StartupAnswers :
       \E created \in {"NULL"} \cup (IF lastCall.created < Len(ConnNames)
                                     THEN {ConnNames[lastCall.created + 1]} ELSE {}) :
       \E r \in {Initialize(tpmNull, tpm, CmdCtx, created, lastCall.comm_type, xport)} :
          /\ tpmNull => created = "NULL"
          /\ tpm' = r.tpm
          /\ CmdCtx' = r.ctx
          /\ lastCall' = [lastCall EXCEPT
                             !.created = IF created = "NULL" THEN @ ELSE @ + 1,
                             !.destroys = Destroyed(@, r.destroyed),
                             !.call = IF tpmNull THEN "init_null" ELSE "init",
                             !.result = r.result, !.sent = r.sent,
                             !.startup = r.startup, !.createdNow = created]

\* A command dispatched on the device handle.  A submit on a connection that
\* was destroyed is recorded in stale; what such a submit does is not
\* defined, and every answer is taken for it.
Life_Command ==
    /\ lastCall.op = "life"
    /\ \E xport \in StartupAnswers :
       \E r \in {TPM2_Startup(tpm, CmdCtx, TPM_SU_CLEAR, xport)} :
          /\ tpm' = r.tpm
          /\ CmdCtx' = r.ctx
          /\ lastCall' = [lastCall EXCEPT
                             !.stale = @ \/ (/\ r.sent # <<>>
                                             /\ tpm.tpm_comm_handle \in Conns
                                             /\ lastCall.destroys[tpm.tpm_comm_handle] > 0),
                             !.call = "command", !.result = r.rc, !.sent = r.sent,
                             !.startup = -1, !.createdNow = "NULL"]

\* tpm_comm_destroy(tpm->tpm_comm_handle); the field keeps its value.
Deinit_TPM_Codec ==
    /\ lastCall.op = "life"
    /\ tpm.tpm_comm_handle \in Conns => lastCall.destroys[tpm.tpm_comm_handle] < MaxDestroys
    /\ lastCall' = [lastCall EXCEPT
                       !.destroys = Destroyed(@, tpm.tpm_comm_handle),
                       !.call = "deinit", !.result = 0, !.sent = <<>>,
                       !.startup = -1, !.createdNow = "NULL"]
    /\ UNCHANGED <<tpm, CmdCtx>>

LifeNext == Initialize_TPM_Codec \/ Life_Command \/ Deinit_TPM_Codec

LifeSpec == LifeInit /\ [][LifeNext]_vars

-----------------------------------------------------------------------------
(* Properties of TSS_BuildCommand, checked under BuildSpec.                *)

Built == lastCall.op = "build"
BuiltTag == RdU16(lastCall.buf, 0)
BuiltSizeField == RdU32(lastCall.buf, 2)
\* Every byte the call counted was stored inside the buffer.
BuiltFits == lastCall.written = lastCall.ret /\ ~lastCall.overrun

C2_TagFollowsSessionCount ==
    (Built /\ lastCall.ret # 0 /\ BuiltFits) =>
        LET a == lastCall.args
        IN  IF a.numSessions = 0
            THEN /\ BuiltTag = TPM_ST_NO_SESSIONS
                 /\ lastCall.ret = STD_RESPONSE_HEADER + 4 * a.numHandles + a.paramsSize
            ELSE /\ BuiltTag = TPM_ST_SESSIONS
                 /\ RdU32(lastCall.buf, STD_RESPONSE_HEADER + 4 * a.numHandles)
                        = AuthAreaSize(a.sessions.arr, 0, a.numSessions)

\* C3: TSS_BuildCommand returns 0 and leaves the buffer as it was when the
\* command code is outside [0x11F, 0x193], when a handle, session or parameter
\* count is non-zero with a NULL array, when the buffer is NULL, or when the
\* capacity is below 10.
C3_InvalidArgsWriteNothing ==
    Built =>
        LET a == lastCall.args
        IN  (\/ a.cmdCode < 287 \/ a.cmdCode > 403
             \/ (a.handles.isNull /\ a.numHandles # 0)
             \/ (a.sessions.isNull /\ a.numSessions # 0)
             \/ (a.params.isNull /\ a.paramsSize # 0)
             \/ a.cmdBuffer.isNull
             \/ a.bufCapacity < 10)
            => (lastCall.ret = 0 /\ lastCall.buf = a.cmdBuffer.arr /\ lastCall.written = 0)

\* A call rejected for its command code alone, on a buffer that holds earlier
\* bytes.
C3_Witness ==
    /\ Built
    /\ lastCall.args.cmdCode = CC_LAST + 1
    /\ lastCall.args.cmdBuffer = Ptr(StaleBuf)
    /\ lastCall.args.bufCapacity = MAX_COMMAND_BUFFER
    /\ lastCall.args.numHandles = 1 /\ ~lastCall.args.handles.isNull
    /\ lastCall.args.numSessions = 1 /\ ~lastCall.args.sessions.isNull
    /\ lastCall.args.paramsSize = 1 /\ ~lastCall.args.params.isNull
    /\ lastCall.ret = 0
    /\ lastCall.buf = StaleBuf

\* C4: TSS_BuildCommand returns 0 when a non-NULL handle array comes with
\* numHandles = 0 or a non-NULL session array with numSessions = 0.
C4_PresentArrayNeedsCount ==
    Built =>
        ((\/ (~lastCall.args.handles.isNull /\ lastCall.args.numHandles = 0)
          \/ (~lastCall.args.sessions.isNull /\ lastCall.args.numSessions = 0))
            => lastCall.ret = 0)

-----------------------------------------------------------------------------
(* Properties of TSS_DispatchCmd, checked under Spec.                      *)

DispatchedCall == lastCall.op = "dispatch"
\* The transport delivered a response to this call.
Delivered == DispatchedCall /\ lastCall.sendStatus = "TSS_SUCCESS"
\* TSS_SendCommand was called and reported a failure.
SendReportedFailure == DispatchedCall /\ lastCall.sendStatus \notin {"TSS_SUCCESS", "none"}
DeliveredTag == RdU16(lastCall.xport.resp, 0)
DeliveredSizeField == RdU32(lastCall.xport.resp, 2)
DeliveredRawStatus == RdU32(lastCall.xport.resp, 6)
NothingParsed ==
    CmdCtx.RespBufPtr = 0 /\ CmdCtx.RetHandle = TPM_RH_UNASSIGNED /\ CmdCtx.RespParamSize = 0

\* C5: when TSS_BuildCommand returns 0 inside TSS_DispatchCmd, the transport is
\* not invoked for that call and the dispatcher returns an error status.
C5_FailedBuildSendsNothing ==
    (DispatchedCall /\ lastCall.buildRet = 0) =>
        (lastCall.sent = <<>> /\ lastCall.result # TPM_RC_SUCCESS)

\* C6: a delivered response whose 2-byte tag is neither TPM_ST_NO_SESSIONS nor
\* TPM_ST_SESSIONS makes TSS_DispatchCmd return TPM_RC_BAD_TAG.
C6_BadTagRejected ==
    (Delivered /\ Len(lastCall.xport.resp) >= 2
        /\ DeliveredTag \notin {TPM_ST_NO_SESSIONS, TPM_ST_SESSIONS})
    => lastCall.result = TPM_RC_BAD_TAG

C8_SendFailureParsesNothing ==
    SendReportedFailure => (lastCall.result # TPM_RC_SUCCESS /\ NothingParsed)

\* A transport failure met while the response buffer still holds an earlier,
\* well-framed response that carried a handle.
C8_Witness ==
    /\ SendReportedFailure
    /\ lastCall.sendStatus = "TSS_E_TPM_TRANSACTION"
    /\ CmdCtx.RespBuffer = Response(TPM_ST_SESSIONS, 0, TPM_RC_SUCCESS, U32(NewHandle) \o U32(0))
    /\ lastCall.cmd.cmdCode = TPM_CC_CreatePrimary
    /\ lastCall.result = TPM_RC_COMMAND_CODE
    /\ NothingParsed

\* The status the dispatcher returns for a well-framed response that reports
\* the device error rc, and for a handle-returning command answered with an
\* invalid handle.
OpenDevice == [tpm_comm_handle |-> "open", LastRawResponse |-> 0]
DeviceErrorStatus(rc) ==
    DispatchCmd(FALSE, FALSE, OpenDevice, InitCmdCtx, TPM_CC_GetCapability,
                NullPtr, 0, NullPtr, 0,
                [ok |-> TRUE, resp |-> Response(TPM_ST_NO_SESSIONS, 0, rc, <<>>)]).result
InvalidHandleStatus ==
    DispatchCmd(FALSE, FALSE, OpenDevice, InitCmdCtx, TPM_CC_CreatePrimary,
                NullPtr, 0, NullPtr, 0,
                [ok |-> TRUE, resp |-> Response(TPM_ST_NO_SESSIONS, 0, TPM_RC_SUCCESS, U32(0))]).result

\* C9: the status returned for a transport failure differs from every status
\* the dispatcher returns for a device-reported error and from the one it
\* returns for an invalid returned handle.
C9_TransportStatusDistinct ==
    SendReportedFailure =>
        /\ \A rc \in DeviceErrorRaws : lastCall.result # DeviceErrorStatus(rc)
        /\ lastCall.result # InvalidHandleStatus

\* C10: after each TSS_DispatchCmd call RetHandle is TPM_RH_UNASSIGNED or the
\* handle decoded from this call's response to a handle-returning command
\* whose raw status is success; and such a command returns success only with
\* a decoded handle that is neither 0 nor TPM_RH_UNASSIGNED.
C10_RetHandleIsCurrent ==
    DispatchedCall =>
        /\ \/ CmdCtx.RetHandle = TPM_RH_UNASSIGNED
           \/ /\ Delivered
              /\ ReturnsHandle(lastCall.cmd.cmdCode)
              /\ DeliveredRawStatus = TPM_RC_SUCCESS
              /\ CmdCtx.RetHandle = RdU32(lastCall.xport.resp, STD_RESPONSE_HEADER)
        /\ (ReturnsHandle(lastCall.cmd.cmdCode) /\ lastCall.result = TPM_RC_SUCCESS)
                => CmdCtx.RetHandle \notin {0, TPM_RH_UNASSIGNED}

-----------------------------------------------------------------------------
(* Properties of CleanResponseCode, checked under CleanSpec.               *)

Cleaned == lastCall.op = "clean"
\* The high 16 bits of the raw status are 0x8028.
RawIsCommMedium == (lastCall.raw \div 65536) % 65536 = 32808
\* The format-1 family bit (bit 7) of the raw status.
RawFamilyBit == (lastCall.raw \div 128) % 2

\* C11: CleanResponseCode(CleanResponseCode(x)) = CleanResponseCode(x) for
\* every raw status x, and every code whose high 16 bits are 0x8028 is
\* returned unchanged.
C11_CleanIdempotent ==
    Cleaned =>
        /\ lastCall.again = lastCall.ret
        /\ RawIsCommMedium => lastCall.ret = lastCall.raw

\* A communication-medium code with low bits set, returned as it came.
C11_Witness ==
    /\ Cleaned
    /\ RawIsCommMedium
    /\ lastCall.raw % 65536 = 1024 + 256 + 64 + 4
    /\ lastCall.ret = lastCall.raw
    /\ lastCall.again = lastCall.raw

\* C12 as stated: for a raw status outside the communication-medium class the
\* result has only the family bit and a 6-bit code number when the family bit
\* is set, and only a 7-bit code number when it is clear.
C12_Original_OnlyCodeNumber ==
    (Cleaned /\ ~RawIsCommMedium) =>
        IF RawFamilyBit = 1
        THEN lastCall.ret \in 128..191
        ELSE lastCall.ret \in 0..127

\* C12 amended: for a raw status outside the communication-medium class the
\* result is the family bit plus the raw 6-bit code number when the family
\* bit is set; when it is clear the result is the raw 7-bit code number plus
\* the raw version bit (bit 8) and warning bit (bit 11), and nothing else.
C12_CleanKeepsKindOnly ==
    (Cleaned /\ ~RawIsCommMedium) =>
        IF RawFamilyBit = 1
        THEN lastCall.ret = 128 + (lastCall.raw % 64)
        ELSE lastCall.ret = (lastCall.raw % 128)
                            + 256 * ((lastCall.raw \div 256) % 2)
                            + 2048 * ((lastCall.raw \div 2048) % 2)

\* TPM_RC_FAILURE with the reserved bits 9 and 10 set: the version bit stays.
C12_Witness ==
    /\ Cleaned
    /\ lastCall.raw = 1024 + 512 + TPM_RC_FAILURE
    /\ lastCall.ret = TPM_RC_FAILURE

-----------------------------------------------------------------------------
(* Properties of the status TSS_DispatchCmd returns, checked under Spec.   *)

\* The delivered response is well framed: a command tag and a size field
\* equal to the number of bytes received.
DeliveredWellFramed ==
    /\ Delivered
    /\ Len(lastCall.xport.resp) >= STD_RESPONSE_HEADER
    /\ DeliveredTag \in {TPM_ST_NO_SESSIONS, TPM_ST_SESSIONS}
    /\ DeliveredSizeField = Len(lastCall.xport.resp)
\* The raw codes that agree with raw on everything but the location bits
\* (bit 6 and bits 8-11).
LocationVariants(raw) ==
    LET base == raw - 64 * ((raw \div 64) % 2) - 256 * ((raw \div 256) % 16)
    IN  {base + 64 * p + 256 * n : p \in 0..1, n \in 0..15}
\* The response with its raw status replaced.
WithRawStatus(resp, rc) ==
    SubSeq(resp, 1, 6) \o U32(rc) \o SubSeq(resp, STD_RESPONSE_HEADER + 1, Len(resp))
\* The status returned for the same command when the response is resp.
StatusFor(cmd, resp) ==
    DispatchCmd(FALSE, FALSE, OpenDevice, Prepared(InitCmdCtx, cmd), cmd.cmdCode,
                cmd.handles, cmd.numHandles, cmd.sessions, cmd.numSessions,
                [ok |-> TRUE, resp |-> resp]).result

\* C13: for a well-framed response with a device-originated format-1 raw
\* code, TSS_DispatchCmd returns the status it returns for every response
\* that differs from it only in the location bits of the raw code.
C13_StatusIgnoresLocation ==
    (DeliveredWellFramed
        /\ (DeliveredRawStatus \div 128) % 2 = 1
        /\ (DeliveredRawStatus \div 65536) % 65536 # 32808)
    => \A rc \in LocationVariants(DeliveredRawStatus) :
           lastCall.result = StatusFor(lastCall.cmd, WithRawStatus(lastCall.xport.resp, rc))

\* TPM_RC_VALUE blamed on parameter 1 comes back as plain TPM_RC_VALUE (0x84).
C13_Witness ==
    /\ DeliveredWellFramed
    /\ lastCall.cmd.cmdCode = TPM_CC_CreatePrimary
    /\ lastCall.xport.resp = Response(TPM_ST_SESSIONS, 0, RawValueParam1, <<>>)
    /\ RawValueSession1 \in LocationVariants(DeliveredRawStatus)
    /\ lastCall.result = RC_FMT1 + 4

-----------------------------------------------------------------------------
(* Properties of TSS_CreatePwAuthSession, checked under PwSpec.            *)

PwCalled == lastCall.op = "pw"
\* No command went to the device: the device and the context are untouched.
NoTransportCall ==
    tpm = [tpm_comm_handle |-> "open", LastRawResponse |-> 0] /\ CmdCtx = InitCmdCtx

\* C14: with non-NULL arguments TSS_CreatePwAuthSession returns success, the
\* session handle is TPM_RS_PW, the input nonce is empty, the input HMAC field
\* holds the authorization value, continueSession is set on the input and the
\* output record, and no transport call is made; with a NULL argument it
\* returns TPM_RC_FAILURE and changes nothing.
C14_PwSessionShape ==
    PwCalled =>
        /\ NoTransportCall
        /\ IF lastCall.authValue.isNull \/ lastCall.before.isNull
           THEN lastCall.result = TPM_RC_FAILURE /\ lastCall.session = lastCall.before
           ELSE /\ lastCall.result = TPM_RC_SUCCESS
                /\ lastCall.session.arr.SessIn.sessionHandle = TPM_RS_PW
                /\ Len(lastCall.session.arr.SessIn.nonce) = 0
                /\ lastCall.session.arr.SessIn.hmac = lastCall.authValue.arr
                /\ lastCall.session.arr.SessIn.sessionAttributes % 2 = 1
                /\ lastCall.session.arr.SessOut.sessionAttributes % 2 = 1

\* A session used before, with a nonce and without continueSession, turned
\* into a password session for an authorization value of full length.
C14_Witness ==
    /\ PwCalled
    /\ lastCall.result = TPM_RC_SUCCESS
    /\ lastCall.before.arr.SessIn.nonce = <<17, 34>>
    /\ lastCall.before.arr.SessIn.sessionAttributes = 96
    /\ lastCall.before.arr.SessOut.sessionAttributes = 32
    /\ Len(lastCall.authValue.arr) = MaxAuthLen
    /\ lastCall.session.arr.SessIn.hmac = lastCall.authValue.arr
    /\ lastCall.session.arr.SessIn.nonce = <<>>

-----------------------------------------------------------------------------
(* Properties of TSS_StartAuthSession, checked under StartSpec.            *)

StartCalled == lastCall.op = "start"
\* Offset of the parameters in the command: the header and two handles.
StartParamsAt == STD_RESPONSE_HEADER + 8
\* Offset of the nonce in a success response: after the handle, and after the
\* parameter size when the tag is TPM_ST_SESSIONS.
StartNonceAt ==
    IF RdU16(lastCall.args.xport.resp, 0) = TPM_ST_SESSIONS
    THEN STD_RESPONSE_HEADER + 8 ELSE STD_RESPONSE_HEADER + 4

\* C15: the command TSS_StartAuthSession sends carries a caller nonce of
\* exactly TSS_GetDigestSize(authHash) bytes, and whenever it returns success
\* the device answered with success and the session holds the handle and the
\* nonce of that answer (output record), the caller nonce (input record) and
\* the caller's attribute flags on both records.
C15_StartAuthSessionResult ==
    StartCalled =>
        LET ds == TSS_GetDigestSize(lastCall.args.authHash)
            resp == lastCall.args.xport.resp
        IN  /\ Len(lastCall.nonceCaller) = ds
            /\ lastCall.sent # <<>> =>
                   /\ lastCall.sent = <<StartParamsAt + 2 + ds + 2 + 1 + 2 + 2>>
                   /\ RdU16(CmdCtx.CmdBuffer, StartParamsAt) = ds
                   /\ SubSeq(CmdCtx.CmdBuffer, StartParamsAt + 3, StartParamsAt + 2 + ds)
                          = lastCall.nonceCaller
            /\ lastCall.rc = TPM_RC_SUCCESS =>
                   /\ RdU32(resp, 6) = TPM_RC_SUCCESS
                   /\ lastCall.session.SessIn.sessionHandle = RdU32(resp, STD_RESPONSE_HEADER)
                   /\ lastCall.session.SessOut.nonce
                          = SubSeq(resp, StartNonceAt + 3, StartNonceAt + 2 + RdU16(resp, StartNonceAt))
                   /\ lastCall.session.SessIn.nonce = lastCall.nonceCaller
                   /\ lastCall.session.SessIn.sessionAttributes = lastCall.args.sessAttrs
                   /\ lastCall.session.SessOut.sessionAttributes = lastCall.args.sessAttrs


-----------------------------------------------------------------------------
(* Properties of SignData, checked under SignSpec.                         *)

Signing == lastCall.op = "sign"
SignReturned == Signing /\ lastCall.pc = "done"
\* The capacity test passed and the capability query produced a limit.
LimitKnown ==
    /\ Signing /\ lastCall.pc # "entry"
    /\ lastCall.capacity >= TSS_GetDigestSize(TPM_ALG_SHA256)
    /\ lastCall.MaxInputBuffer # TSS_BAD_PROPERTY
OneShots == CommandsOf(lastCall.cmds, TPM_CC_HMAC)
Starts == CommandsOf(lastCall.cmds, TPM_CC_HMAC_Start)
Updates == CommandsOf(lastCall.cmds, TPM_CC_SequenceUpdate)
Completes == CommandsOf(lastCall.cmds, TPM_CC_SequenceComplete)
AllSucceeded == \A i \in 1..Len(lastCall.cmds) : lastCall.cmds[i].rc = TPM_RC_SUCCESS
\* The fields of an issued command with one handle and one session: the
\* handle, the authorization area, and the bytes of its first parameter.
CarriedHandle(cmd) == RdU32(cmd.bytes, 10)
CarriedAuth(cmd) == SubSeq(cmd.bytes, 19, 18 + RdU32(cmd.bytes, 14))
CarriedData(cmd) ==
    LET at == 18 + RdU32(cmd.bytes, 14)
    IN  SubSeq(cmd.bytes, at + 3, at + 2 + RdU16(cmd.bytes, at))

\* C16: with enough output capacity and an input limit M reported by the
\* device, a token of at most M bytes is signed with exactly one HMAC command
\* and no sequence command; a longer token with one HMAC_Start, then
\* SequenceUpdate commands of exactly M bytes each, issued only while more
\* than M bytes remain, then one SequenceComplete with the remainder, which is
\* in (0, M]; a token of M + 1 bytes takes one update of M bytes and one
\* complete of 1 byte.
C16_ChunkingPolicy ==
    LimitKnown =>
        LET M == lastCall.MaxInputBuffer
            L == lastCall.tokenSize
            Before(i) == Cardinality({j \in Updates : j < i})
        IN  IF ~UGt(L, M)
            THEN /\ Starts \cup Updates \cup Completes = {}
                 /\ Cardinality(OneShots) <= 1
                 /\ SignReturned => Cardinality(OneShots) = 1
            ELSE /\ OneShots = {}
                 /\ Cardinality(Starts) <= 1 /\ Cardinality(Completes) <= 1
                 /\ \A i \in Updates \cup Completes : \E j \in Starts : j < i
                 /\ \A i \in Updates : \A j \in Completes : i < j
                 /\ \A i \in Updates :
                        /\ Len(CarriedData(lastCall.cmds[i])) = M
                        /\ L - M * Before(i) > M
                 /\ \A j \in Completes :
                        /\ Len(CarriedData(lastCall.cmds[j])) = L - M * Cardinality(Updates)
                        /\ L - M * Cardinality(Updates) > 0
                        /\ L - M * Cardinality(Updates) <= M
                        /\ L = M + 1 => Cardinality(Updates) = 1
                 /\ SignReturned /\ AllSucceeded =>
                        Cardinality(Starts) = 1 /\ Cardinality(Completes) = 1

\* SignData returned after copying a digest.
SignSucceeded ==
    /\ SignReturned
    /\ lastCall.capacity >= TSS_GetDigestSize(TPM_ALG_SHA256)
    /\ lastCall.result = TSS_GetDigestSize(TPM_ALG_SHA256)
\* ceil(a / b) for b > 0.
CeilDiv(a, b) == (a + b - 1) \div b

\* C17 as stated: a successful run over L > M bytes issues ceil(L/M) sequence
\* commands in total, the start, the updates and the complete together.
C17_Original_TotalIsCeil ==
    /\ SignSucceeded /\ lastCall.MaxInputBuffer > 0
    /\ lastCall.tokenSize > lastCall.MaxInputBuffer
    => Cardinality(Starts) + Cardinality(Updates) + Cardinality(Completes)
           = CeilDiv(lastCall.tokenSize, lastCall.MaxInputBuffer)

\* C17: a successful run over L > M bytes issues one HMAC_Start and ceil(L/M)
\* commands that carry data, the updates and the one complete, which is
\* ceil(L/M) + 1 sequence commands in total, and no one-shot HMAC; a
\* successful run over L <= M bytes issues exactly one HMAC command and no
\* sequence command.
C17_CommandCount ==
    SignSucceeded =>
        LET M == lastCall.MaxInputBuffer
            L == lastCall.tokenSize
        IN  IF M # TSS_BAD_PROPERTY /\ L > M
            THEN /\ M > 0
                 /\ Cardinality(Starts) = 1 /\ Cardinality(Completes) = 1
                 /\ Cardinality(Updates) + Cardinality(Completes) = CeilDiv(L, M)
                 /\ OneShots = {}
            ELSE /\ Cardinality(OneShots) = 1
                 /\ Starts \cup Updates \cup Completes = {}

\* A successful run of three updates and a complete.
C17_Witness ==
    /\ SignSucceeded /\ lastCall.MaxInputBuffer > 0
    /\ lastCall.tokenSize > 3 * lastCall.MaxInputBuffer
    /\ Cardinality(Updates) = 3 /\ Cardinality(Completes) = 1

\* The raw status of the answer to an issued command, and the handle that
\* follows the header of the answer.
AnsweredSuccess(cmd) ==
    /\ cmd.answer.ok /\ Len(cmd.answer.resp) >= STD_RESPONSE_HEADER + 4
    /\ RdU32(cmd.answer.resp, 6) = TPM_RC_SUCCESS
AnsweredHandle(cmd) == RdU32(cmd.answer.resp, STD_RESPONSE_HEADER)

\* C18: in every run, each SequenceUpdate and the SequenceComplete come after
\* an HMAC_Start and every SequenceUpdate before the SequenceComplete; there
\* is never more than one SequenceComplete and a successful chunked run has
\* exactly one; every update and the complete carry the sequence handle that
\* the device returned in answer to the run's HMAC_Start, and the session the
\* start carried.
C18_SequenceOrder ==
    Signing =>
        /\ \A i \in Updates \cup Completes : \E j \in Starts : j < i
        /\ \A i \in Updates : \A j \in Completes : i < j
        /\ Cardinality(Completes) <= 1
        /\ SignSucceeded /\ Starts # {} => Cardinality(Completes) = 1
        /\ \A i \in Updates \cup Completes : \A j \in Starts :
              /\ AnsweredSuccess(lastCall.cmds[j])
              /\ CarriedHandle(lastCall.cmds[i]) = AnsweredHandle(lastCall.cmds[j])
              /\ CarriedAuth(lastCall.cmds[i]) = CarriedAuth(lastCall.cmds[j])

\* An issued command failed: the transport gave no answer, the device
\* answered with a status other than TPM_RC_SUCCESS, or the wrapper returned
\* an error.
CommandFailed(cmd) ==
    \/ cmd.rc # TPM_RC_SUCCESS
    \/ ~cmd.answer.ok
    \/ Len(cmd.answer.resp) < STD_RESPONSE_HEADER
    \/ RdU32(cmd.answer.resp, 6) # TPM_RC_SUCCESS
SignatureUntouched == lastCall.signatureBuffer = [i \in 1..lastCall.capacity |-> 170]

\* C19: once the start, an update, the complete or the one-shot HMAC has
\* failed, SignData issues no further command, returns 0 and leaves
\* signatureBuffer as it was.
C19_FailureStops ==
    Signing =>
        /\ \A i \in OneShots \cup Starts \cup Updates \cup Completes :
              CommandFailed(lastCall.cmds[i]) =>
                  /\ i = Len(lastCall.cmds)
                  /\ SignReturned /\ lastCall.result = 0
                  /\ SignatureUntouched
        /\ lastCall.rc # TPM_RC_SUCCESS =>
              SignReturned /\ lastCall.result = 0 /\ SignatureUntouched

\* The digest in a response with a session area: it follows the header and
\* the parameter size.
AnsweredDigest(cmd) ==
    LET at == STD_RESPONSE_HEADER + 4
    IN  SubSeq(cmd.answer.resp, at + 3, at + 2 + RdU16(cmd.answer.resp, at))

\* C20: a call with a capacity below the digest size (32) returns 32, issues
\* no command and leaves signatureBuffer as it was; a call with a capacity of
\* at least 32 whose commands succeed returns 32 with the digest the device
\* returned at the start of signatureBuffer and the bytes after the first 32
\* as they were; a call that fails returns 0 and writes nothing.
C20_DigestCopy ==
    SignReturned =>
        LET sigSize == TSS_GetDigestSize(TPM_ALG_SHA256)
            last == lastCall.cmds[Len(lastCall.cmds)]
        IN  IF lastCall.capacity < sigSize
            THEN lastCall.result = sigSize /\ SignatureUntouched /\ lastCall.cmds = <<>>
            ELSE IF lastCall.rc = TPM_RC_SUCCESS
            THEN /\ lastCall.result = sigSize
                 /\ Len(lastCall.cmds) \in OneShots \cup Completes
                 /\ SubSeq(lastCall.signatureBuffer, 1, sigSize) = SubSeq(lastCall.digest, 1, sigSize)
                 /\ AnsweredSuccess(last) /\ Len(AnsweredDigest(last)) <= sigSize =>
                        SubSeq(lastCall.signatureBuffer, 1, Len(AnsweredDigest(last)))
                            = AnsweredDigest(last)
                 /\ \A i \in (sigSize + 1)..lastCall.capacity : lastCall.signatureBuffer[i] = 170
            ELSE lastCall.result = 0 /\ SignatureUntouched

\* A chunked run into a buffer of 33 bytes that returns 32 with the device's
\* SHA-256 digest in the first 32 bytes.
C20_Witness ==
    /\ SignReturned /\ lastCall.capacity = 33 /\ lastCall.result = 32
    /\ Completes # {}
    /\ SubSeq(lastCall.signatureBuffer, 1, 32) = DeviceDigest(32)
    /\ lastCall.signatureBuffer[33] = 170

\* SignData returned 0 because a command of its hash or sequence path failed.
SignAborted ==
    /\ SignReturned /\ lastCall.rc # TPM_RC_SUCCESS
    /\ lastCall.capacity >= TSS_GetDigestSize(TPM_ALG_SHA256)
\* The failed command reached the transport and was answered with at least a
\* response header.
FailedWithHeader ==
    /\ lastCall.cmds # <<>>
    /\ LET last == lastCall.cmds[Len(lastCall.cmds)]
       IN  /\ last.rc # TPM_RC_SUCCESS /\ last.answer.ok
           /\ Len(last.answer.resp) >= STD_RESPONSE_HEADER

\* When the failed command was answered with a response header,
\* LastRawResponse is the raw status of that response.
LastRawResponseOfAnswer ==
    SignAborted /\ FailedWithHeader =>
        tpm.LastRawResponse = RdU32(lastCall.cmds[Len(lastCall.cmds)].answer.resp, 6)

\* C21: when SignData returns 0 because a command failed, LastRawResponse
\* holds the response code of that command: the raw status of its response
\* when there is one, and otherwise (the transport failed, or a helper
\* refused the size) the code the failed call returned, never what an earlier
\* command left there.
C21_LastRawResponseOfFailure ==
    /\ LastRawResponseOfAnswer
    /\ SignAborted /\ ~FailedWithHeader => tpm.LastRawResponse = lastCall.rc

-----------------------------------------------------------------------------
(* Properties of TSS_GetTpmProperty, checked under PropSpec.               *)

PropCalled == lastCall.op = "prop"
\* The answer reports success and a list of exactly one property, the one
\* asked for, in the TPM-properties category.
PropAnswerValid ==
    /\ tpm.tpm_comm_handle = "open" /\ lastCall.args.xport.ok
    /\ \E more \in {0, 1}, v \in PropertyValues :
          lastCall.args.xport.resp =
              Response(TPM_ST_NO_SESSIONS, 0, TPM_RC_SUCCESS,
                       <<more>> \o U32(TPM_CAP_TPM_PROPERTIES) \o U32(1)
                           \o U32(lastCall.args.property) \o U32(v))

\* C22: TSS_GetTpmProperty asks for one property of the TPM-properties
\* category; it returns the value in the answer when the answer reports
\* success, the TPM-properties category, a count of 1 and the property asked
\* for, and TSS_BAD_PROPERTY in every other case.
C22_GetTpmPropertyChecks ==
    PropCalled =>
        /\ \A i \in 1..Len(lastCall.cmds) :
              /\ RdU32(lastCall.cmds[i].bytes, 6) = TPM_CC_GetCapability
              /\ SubSeq(lastCall.cmds[i].bytes, 11, Len(lastCall.cmds[i].bytes))
                    = U32(TPM_CAP_TPM_PROPERTIES) \o U32(lastCall.args.property) \o U32(1)
        /\ lastCall.value = IF PropAnswerValid
                            THEN RdU32(lastCall.args.xport.resp, STD_RESPONSE_HEADER + 13)
                            ELSE TSS_BAD_PROPERTY

-----------------------------------------------------------------------------
(* Properties of the command wrappers, checked under WrapSpec.             *)

WrapCalled == lastCall.op = "wrap"
\* The answer holds everything the wrapper decodes.
AnswerComplete ==
    /\ lastCall.args.xport.ok
    /\ \E tail \in {<<>>, RespAuth} :
          lastCall.args.xport.resp =
              Response(TPM_ST_SESSIONS, 0, TPM_RC_SUCCESS, Decoded(lastCall.args.wrapper) \o tail)

\* C23: a wrapper whose dispatch failed returns the status of the dispatch
\* and leaves its output parameters as they were; a wrapper whose dispatch
\* succeeded returns TPM_RC_SUCCESS with the decoded values when the response
\* holds them all, and TPM_RC_INSUFFICIENT when the decoding fails
\* (TPM2_HMAC_Start decodes nothing after the dispatch and cannot fail there).
C23_WrapperTemplate ==
    WrapCalled =>
        IF lastCall.dispatch # TPM_RC_SUCCESS
        THEN lastCall.rc = lastCall.dispatch /\ lastCall.out = lastCall.args.out
        ELSE IF AnswerComplete
        THEN lastCall.rc = TPM_RC_SUCCESS /\ lastCall.out = DecodedOut(lastCall.args.wrapper)
        ELSE IF lastCall.args.wrapper = "HMAC_Start"
        THEN lastCall.rc = TPM_RC_SUCCESS
        ELSE lastCall.rc = TPM_RC_INSUFFICIENT

\* TPM2_CreatePrimary on a response cut short inside creationHash: the
\* dispatch succeeded, the decoding failed.
C23_Witness ==
    /\ WrapCalled /\ lastCall.args.wrapper = "CreatePrimary"
    /\ lastCall.dispatch = TPM_RC_SUCCESS /\ lastCall.rc = TPM_RC_INSUFFICIENT
    /\ lastCall.out.objectHandle = NewHandle
    /\ lastCall.out.public[2] = <<4>>
-----------------------------------------------------------------------------
(* Properties of two concurrent callers, checked under ConcSpec.           *)

\* The call of caller t when no other caller runs.
CallerAlone(t) ==
    DispatchCmd(FALSE, FALSE, [tpm_comm_handle |-> "open", LastRawResponse |-> 0],
                [InitCmdCtx EXCEPT !.ParamSize = CallerCmd(t).paramsSize,
                                   !.ParamBuffer = SubSeq(CallerParams(t), 1,
                                                          CallerCmd(t).paramsSize)],
                CallerCmd(t).cmdCode, CallerCmd(t).handles, CallerCmd(t).numHandles,
                CallerCmd(t).sessions, CallerCmd(t).numSessions, lastCall.xport[t])

CallerDone(t) == At(t, "done")

\* C24: when two callers run commands concurrently on two device handles,
\* the command of each is unaffected by the other: the bytes handed to the
\* transport, the status returned and the raw status left in the caller's
\* device handle are those of the same call made alone.
C24_NoSharedContext ==
    \A t \in Callers :
        CallerDone(t) =>
            /\ lastCall.handed[t] = HandedBytes(CallerAlone(t).ctx)
            /\ lastCall.result[t] = CallerAlone(t).result
            /\ tpm[t] = CallerAlone(t).tpm

-----------------------------------------------------------------------------
(* Properties of TSS_DispatchCmd with long parameters, checked under       *)
(* LongSpec.                                                               *)

LongCalled == lastCall.op = "long"

-----------------------------------------------------------------------------
(* Properties of the helpers that take a length, checked under SizedSpec.  *)

SizedCalled == lastCall.op = "sized"

\* A UINT32 above MAX_DIGEST_BUFFER: values from 0x80000000 on are held as
\* negative integers.
TooLong(dataSize) == dataSize < 0 \/ dataSize > MAX_DIGEST_BUFFER

\* C26: TSS_HMAC, TSS_Hash, TSS_SequenceUpdate and TSS_SequenceComplete
\* return TPM_RC_SIZE and dispatch no command whenever dataSize exceeds
\* MAX_DIGEST_BUFFER: nothing is handed to the transport, and the command
\* context and the device handle stay as they were.
C26_SizeRefused ==
    SizedCalled /\ TooLong(lastCall.args.dataSize) =>
        /\ lastCall.rc = TPM_RC_SIZE
        /\ lastCall.sent = <<>>
        /\ CmdCtx = InitCmdCtx
        /\ tpm = lastCall.args.tpm

C26_Witness ==
    /\ SizedCalled /\ lastCall.args.helper = "Hash"
    /\ lastCall.args.dataSize = -1
    /\ lastCall.args.tpm.tpm_comm_handle = "open" /\ lastCall.args.xport.ok
    /\ lastCall.rc = TPM_RC_SIZE /\ lastCall.sent = <<>>

-----------------------------------------------------------------------------
(* Properties of the last-raw-response slot, checked under Spec.           *)

\* What a dispatch that reaches the decoding of its answer stores in the slot:
\* TPM_RC_NOT_USED, and then the raw status of the answer if the header can
\* be decoded that far.
StatusesOfAnswer(xport) ==
    {TPM_RC_NOT_USED}
    \cup (IF xport.ok /\ Len(xport.resp) >= STD_RESPONSE_HEADER
          THEN {RdU32(xport.resp, 6)} ELSE {})

\* The slot holds what an earlier dispatch decoded into it.
WrittenByDispatch == lastCall.op = "dispatch" /\ lastCall.sendStatus = "TSS_SUCCESS"

\* C27: the last-raw-response slot is overwritten on every dispatch: a
\* TSS_DispatchCmd call with a valid device and context that follows an
\* earlier command leaves in tpm->LastRawResponse a value it stored
\* itself, never the raw status of the earlier command.
C27_SlotOverwritten ==
    [][WrittenByDispatch /\ lastCall'.op = "dispatch"
       /\ ~lastCall'.tpmNull /\ ~lastCall'.ctxNull
       => tpm'.LastRawResponse \in StatusesOfAnswer(lastCall'.xport)]_vars


\* C28: TSS_DispatchCmd returns TPM_RC_SUCCESS only if the raw status in the
\* response is TPM_RC_SUCCESS: no non-zero status reported by the device is
\* canonicalized into success.
C28_SuccessOnlyOnRawSuccess ==
    lastCall.op = "dispatch" /\ lastCall.result = TPM_RC_SUCCESS =>
        /\ lastCall.sendStatus = "TSS_SUCCESS"
        /\ Len(lastCall.xport.resp) >= STD_RESPONSE_HEADER
        /\ RdU32(lastCall.xport.resp, 6) = TPM_RC_SUCCESS

-----------------------------------------------------------------------------
(* Termination of SignData, checked under SignRunSpec.                     *)

\* C29: SignData terminates for every payload length and every input limit
\* reported by the device, a limit of 0 included, provided every transport
\* call returns.
C29_SignDataTerminates == <>SignReturned

-----------------------------------------------------------------------------
(* Properties of the capability query of SignData, checked under SignSpec. *)

\* The query of the input limit was made and produced the failure value.
QueryFailed ==
    /\ Signing /\ lastCall.pc # "entry"
    /\ lastCall.capacity >= TSS_GetDigestSize(TPM_ALG_SHA256)
    /\ lastCall.MaxInputBuffer = TSS_BAD_PROPERTY

\* C30: if the maximum-input-size capability query made by SignData fails,
\* SignData aborts: it issues no HMAC or sequence command and returns 0.
C30_QueryFailureAborts ==
    SignReturned /\ QueryFailed =>
        /\ lastCall.result = 0
        /\ OneShots = {} /\ Starts = {} /\ Updates = {} /\ Completes = {}

-----------------------------------------------------------------------------
(* Properties of the chunks SignData sends, checked under SignSpec.        *)

\* The data carried by the update and complete commands of cmds, one after
\* another in the order the commands were issued.
RECURSIVE ChunksSent(_)
ChunksSent(cmds) ==
    IF cmds = <<>> THEN <<>>
    ELSE (IF RdU32(Head(cmds).bytes, 6) \in {TPM_CC_SequenceUpdate, TPM_CC_SequenceComplete}
          THEN CarriedData(Head(cmds)) ELSE <<>>)
         \o ChunksSent(Tail(cmds))

\* C31: on a successful chunked SignData run, the chunks sent (the updates in
\* order, then the complete) are consecutive non-overlapping slices of the
\* payload starting at offset 0 whose lengths sum to tokenSize: put one after
\* another they are the payload, and the complete comes last.
C31_ChunksAreThePayload ==
    SignSucceeded /\ Starts # {} =>
        /\ ChunksSent(lastCall.cmds) = lastCall.tokenData
        /\ Len(ChunksSent(lastCall.cmds)) = lastCall.tokenSize
        /\ \A i \in Updates : \A j \in Completes : i < j

C31_Witness ==
    /\ SignSucceeded /\ lastCall.tokenSize = 5 /\ lastCall.MaxInputBuffer = 2
    /\ Cardinality(Updates) = 2 /\ Cardinality(Completes) = 1
    /\ ChunksSent(lastCall.cmds) = <<TokenByte(1), TokenByte(2), TokenByte(3), TokenByte(4), TokenByte(5)>>

-----------------------------------------------------------------------------
(* Properties of the failure value of TSS_GetTpmProperty, checked under    *)
(* PropSpec.                                                               *)

\* C32: the failure result of TSS_GetTpmProperty is distinguishable from
\* every value it returns on success: it returns TSS_BAD_PROPERTY if and only
\* if the query failed one of its checks.
C32_FailureValueDistinct ==
    PropCalled => (lastCall.value = TSS_BAD_PROPERTY <=> ~PropAnswerValid)

-----------------------------------------------------------------------------
(* Properties of the life of a device handle, checked under LifeSpec.      *)

Living == lastCall.op = "life"

\* C33: across any sequence of Initialize_TPM_Codec, command and
\* Deinit_TPM_Codec calls on one device handle, each created transport
\* connection is destroyed at most once and no command is submitted on a
\* connection that has already been destroyed.
C33_ConnectionLifecycle ==
    Living =>
        /\ \A c \in Conns : lastCall.destroys[c] <= 1
        /\ ~lastCall.stale


InitializeCalled == Living /\ lastCall.call \in {"init", "init_null"}

\* C34: Initialize_TPM_Codec returns TPM_RC_SUCCESS if and only if the
\* transport connection was created and, for an emulator transport,
\* TPM2_Startup returned TPM_RC_SUCCESS or TPM_RC_INITIALIZE; for a
\* non-emulator transport it sends no startup command.
C34_InitializeResult ==
    InitializeCalled =>
        LET emulator == lastCall.comm_type = "TPM_COMM_TYPE_EMULATOR"
        IN  /\ lastCall.result = TPM_RC_SUCCESS <=>
                  /\ lastCall.createdNow # "NULL"
                  /\ emulator => lastCall.startup \in {TPM_RC_SUCCESS, TPM_RC_INITIALIZE}
            /\ ~emulator => lastCall.sent = <<>> /\ lastCall.startup = -1

C34_Witness ==
    /\ InitializeCalled /\ lastCall.comm_type = "TPM_COMM_TYPE_EMULATOR"
    /\ lastCall.createdNow = "conn1" /\ lastCall.startup = TPM_RC_INITIALIZE
    /\ tpm.LastRawResponse = TPM_RC_INITIALIZE
    /\ lastCall.result = TPM_RC_SUCCESS

-----------------------------------------------------------------------------
(* Properties of a failed TSS_StartAuthSession call, checked under         *)
(* StartSpec.                                                              *)

\* C35: if TSS_StartAuthSession returns a non-success status, the caller's
\* session object is unchanged: its session handle, input and output nonces
\* and attribute flags keep the values they had before the call.
C35_FailureLeavesSession ==
    StartCalled /\ lastCall.rc # TPM_RC_SUCCESS =>
        lastCall.session = lastCall.args.session

-----------------------------------------------------------------------------
(* Properties of the response cursor, checked under Spec.                  *)

\* The bytes a successful dispatch consumes: the header, the handle of a
\* handle-returning command, the parameter size of a response with sessions.
ExpectedCursor ==
    STD_RESPONSE_HEADER
    + (IF ReturnsHandle(lastCall.cmd.cmdCode) THEN 4 ELSE 0)
    + (IF RdU16(lastCall.xport.resp, 0) = TPM_ST_SESSIONS THEN 4 ELSE 0)

\* C36: after every successful TSS_DispatchCmd, the response cursor is at
\* offset c of the response buffer and RespBytesLeft = RespSize - c, where c
\* is 10, plus 4 if the command is handle-returning, plus 4 if the response
\* tag is the sessions tag; consumed plus remaining bytes equals the number
\* of bytes received.
C36_CursorAfterSuccess ==
    lastCall.op = "dispatch" /\ lastCall.result = TPM_RC_SUCCESS =>
        /\ CmdCtx.RespBufPtr = ExpectedCursor
        /\ CmdCtx.RespBytesLeft = CmdCtx.RespSize - ExpectedCursor
        /\ CmdCtx.RespBufPtr + CmdCtx.RespBytesLeft = Len(lastCall.xport.resp)

=============================================================================
